---- MODULE Spec2Model ----
(***************************************************************************)
(* Virtual local APIC of one HVM virtual processor                         *)
(* (xen/arch/x86/hvm/vlapic.c): interrupt acceptance, processor priority,  *)
(* pending-interrupt query, acknowledgment and end-of-interrupt.           *)
(*                                                                         *)
(* The three 256-bit bitmaps (IRR, ISR, TMR) are sets of vectors; a bit is *)
(* set iff the vector is in the set.  Registers are integers.              *)
(***************************************************************************)
EXTENDS Integers, FiniteSets, Sequences, TLC

VARIABLES
    vlapic,   \* struct vlapic of the controller: registers, hw state, and the
              \* per-vcpu state the controller code reads and writes
    hvm,      \* platform: hvm_funcs hooks/caps and viridian features (fixed)
    ctx,      \* the contexts (other vcpus, device models) calling into the
              \* controller concurrently: position inside vlapic_set_irq
    op,       \* the operation the owning vcpu's context ran last
    ret,      \* its return value
    domain    \* the virtual processors of the domain and their controllers,
              \* where an operation involves several (inter-processor
              \* interrupts, INIT and startup)

vars == <<vlapic, hvm, ctx, op, ret, domain>>

----------------------------------------------------------------------------
(* Bounds of the model *)

\* number of contexts asserting interrupts concurrently
NCtx == 2

\* the per-vector wake counter saturates here
WakeCap == 2

----------------------------------------------------------------------------
(* Architectural constants (asm/apicdef.h, asm/hvm/vlapic.h) *)

X86_IDT_VECTORS == 256

APIC_LVT_MASKED == 2^16

APIC_SPIV_APIC_ENABLED == 2^8

\* ilog2(APIC_ESR_SENDILL), ilog2(APIC_ESR_RECVILL)
ESR_SENDILL_BIT == 5

ESR_RECVILL_BIT == 6

VLAPIC_HW_DISABLED == "hw"

VLAPIC_SW_DISABLED == "sw"

VLAPIC_LVT_NUM == 6

\* index of APIC_LVTERR in the block of local-vector-table registers
LVTERR == 5

\* whether the bit of value mask (a power of two) is set in val
Bit(val, mask) == (val \div mask) % 2 = 1

\* (x) & 0xff
VectorOf(x) == x % 256

\* (x) & 0xf0
HighNibble(x) == ((x \div 16) % 16) * 16

APIC_VECTOR_VALID(x) == VectorOf(x) >= 16

SetMax(S) == CHOOSE x \in S : \A y \in S : y <= x

Min2(a, b) == IF a <= b THEN a ELSE b

\* A 32-bit register that is compared and masked bit by bit (APIC_ID,
\* APIC_LDR, APIC_DFR, a destination) is the set of the positions of its
\* set bits.  WordOf(n) is the register holding the number n < 2^31.
WordOf(n) == { b \in 0..30 : (n \div 2^b) % 2 = 1 }

\* x >> n
ShiftRight(x, n) == { b - n : b \in { y \in x : y >= n } }

\* (uint32_t)(x << n)
ShiftLeft(x, n) == { b + n : b \in { y \in x : y + n <= 31 } }

\* x & (2^n - 1): (uint8_t)x for n = 8, (uint16_t)x for n = 16
LowBits(x, n) == { b \in x : b < n }

\* 0xffffffff
AllOnes == 0..31

\* the state of domain in the specifications of a single controller
NoDomain == [vcpu |-> <<>>]

----------------------------------------------------------------------------
(* Inputs *)

\* 0x31, 0x35: two vectors of one priority class; 0x42: a higher class
LegalVectors == {49, 53, 66}

\* 0x05: below the legal range
IllegalVectors == {5}

\* values written to LVTERR: masked, unmasked with a legal vector (0x42),
\* unmasked with an illegal vector (0x05)
LvterrValues == {APIC_LVT_MASKED, 66, 5}

\* values written to the spurious-vector register: enabled, disabled
SpivValues == {APIC_SPIV_APIC_ENABLED + 255, 255}

Contexts == 1..NCtx

\* hvm_funcs.deliver_posted_intr present, hvm_funcs.caps.virtual_intr_delivery,
\* has_viridian_apic_assist(d), has_viridian_synic(d), hvm_funcs.handle_eoi
\* present, v->arch.hvm.evtchn_upcall_vector
Platform(posted, vid, assist, synic, hook, upcall) ==
    [deliver_posted_intr |-> posted, virtual_intr_delivery |-> vid,
     apic_assist |-> assist, synic |-> synic, handle_eoi |-> hook,
     evtchn_upcall_vector |-> upcall]

Platforms ==
    { Platform(FALSE, FALSE, FALSE, FALSE, FALSE, 0),   \* plain emulation
      Platform(FALSE, FALSE, TRUE,  TRUE,  FALSE, 0),   \* viridian guest
      Platform(TRUE,  TRUE,  FALSE, FALSE, TRUE,  0),   \* APICv with posted interrupts
      Platform(FALSE, TRUE,  FALSE, FALSE, TRUE,  0) }  \* APICv, no posted interrupts

----------------------------------------------------------------------------
(* Register file: bitmap primitives *)

\* the bits set in 32-bit word w of a bitmap
Word(bitmap, w) == { v % 32 : v \in { x \in bitmap : x \div 32 = w } }

\* fls(): 1-based index of the most significant set bit, 0 for a zero word
fls(word) == IF word = {} THEN 0 ELSE SetMax(word) + 1

\* the loop of vlapic_find_highest_vector: the word the scan stops at
RECURSIVE ScanDown(_, _)
ScanDown(bitmap, word_offset) ==
    IF word_offset = 0 THEN 0
    ELSE IF Word(bitmap, word_offset - 1) = {} THEN ScanDown(bitmap, word_offset - 1)
    ELSE word_offset - 1

vlapic_find_highest_vector(bitmap) ==
    LET word_offset == ScanDown(bitmap, X86_IDT_VECTORS \div 32)
    IN  (fls(Word(bitmap, word_offset)) - 1) + (word_offset * 32)

vlapic_test_vector(vec, bitmap) == vec \in bitmap

vlapic_set_vector(vec, bitmap) == bitmap \cup {vec}

vlapic_clear_vector(vec, bitmap) == bitmap \ {vec}

vlapic_enabled(s) == s.disabled = {}

vlapic_sw_disabled(s) == VLAPIC_SW_DISABLED \in s.disabled

----------------------------------------------------------------------------
(* vcpu_kick(target).  Two counters observe the asserts of each vector     *)
(* since its in-request bit was last cleared: asserts counts the calls     *)
(* that reached delivery (0, 1, 2 for two or more), wakes the kicks they   *)
(* sent.                                                                   *)

vcpu_kick(s, vec) ==
    [s EXCEPT !.wakes[vec] = Min2(@ + 1, WakeCap)]

----------------------------------------------------------------------------
(* vlapic_set_irq and vlapic_error, one shared-memory access per step.     *)
(* A call is a record c: pc is the position, vec/trig the arguments of the *)
(* vlapic_set_irq frame, bit the argument of the vlapic_error frame.       *)

\* no call in progress
IdleCtx == [pc |-> "idle", vec |-> 0, trig |-> 0, bit |-> 0]

\* entry of vlapic_set_irq(vlapic, vec, trig)
Call(vec, trig) == [pc |-> "set_irq", vec |-> vec, trig |-> trig, bit |-> 0]

\* entry of vlapic_error(vlapic, err_bit)
ErrorCall(err_bit) == [pc |-> "error", vec |-> 0, trig |-> 0, bit |-> err_bit]

\* the trigger-mode bit written before the range check
vlapic_set_irq_tmr_first(s, c) ==
    LET s1 == [s EXCEPT !.tmr = IF c.trig # 0
                                  THEN vlapic_set_vector(c.vec, @)
                                  ELSE vlapic_clear_vector(c.vec, @)]
    IN  IF ~APIC_VECTOR_VALID(c.vec)
        THEN [s |-> s1, c |-> [c EXCEPT !.pc = "error", !.vec = 0, !.trig = 0,
                                        !.bit = ESR_RECVILL_BIT]]
        ELSE [s |-> s1, c |-> [c EXCEPT !.pc = "deliver"]]

\* vlapic_set_irq: the range check, then the trigger-mode bit
vlapic_set_irq_tmr(s, c) ==
    IF ~APIC_VECTOR_VALID(c.vec)
    THEN [s |-> s, c |-> [c EXCEPT !.pc = "error", !.vec = 0, !.trig = 0,
                                   !.bit = ESR_RECVILL_BIT]]
    ELSE [s |-> [s EXCEPT !.tmr = IF c.trig # 0
                                    THEN vlapic_set_vector(c.vec, @)
                                    ELSE vlapic_clear_vector(c.vec, @)],
          c |-> [c EXCEPT !.pc = "deliver"]]

\* the wake condition of the emulated path: the bit went 0 -> 1
KickOnTransition(was_set) == ~was_set

KickAlways(was_set) == TRUE

irr_kick(was_set) == KickOnTransition(was_set)

\* a test that leaves the bit as it was
vlapic_test_only_irr(vec, s) ==
    [old |-> vlapic_test_vector(vec, s.irr), s |-> s]

\* vlapic_test_and_set_irr: the atomic test-and-set, returns the old bit
vlapic_test_and_set_irr(vec, s) ==
    [old |-> vlapic_test_vector(vec, s.irr),
     s   |-> [s EXCEPT !.irr = vlapic_set_vector(vec, @)]]

\* vlapic_set_irq: posted delivery, or test-and-set of IRR and the kick
vlapic_set_irq_deliver(s, c) ==
    LET s0 == [s EXCEPT !.asserts[c.vec] = Min2(@ + 1, 2)]
    IN  IF hvm.deliver_posted_intr
        THEN [s |-> vcpu_kick([s0 EXCEPT !.pir = @ \cup {c.vec}], c.vec),
              c |-> IdleCtx]
        ELSE LET r == vlapic_test_and_set_irr(c.vec, s0)
             IN  [s |-> IF irr_kick(r.old) THEN vcpu_kick(r.s, c.vec) ELSE r.s,
                  c |-> IdleCtx]

\* a raise that goes on to inject although the bit was already pending
vlapic_error_tas_always(s, c) ==
    [s |-> [s EXCEPT !.pending_esr = @ \cup {c.bit}],
     c |-> [c EXCEPT !.pc = "error_lvt"]]

\* vlapic_error: test_and_set_bit(err_bit, &pending_esr)
vlapic_error_tas(s, c) ==
    IF c.bit \in s.pending_esr
    THEN [s |-> s, c |-> IdleCtx]
    ELSE [s |-> [s EXCEPT !.pending_esr = @ \cup {c.bit}],
          c |-> [c EXCEPT !.pc = "error_lvt"]]

\* a raise that injects whatever vector an unmasked LVTERR holds
vlapic_error_lvt_inject(s, c) ==
    LET lvterr == s.lvt[LVTERR]
    IN  IF (lvterr \div APIC_LVT_MASKED) % 2 = 1
        THEN [s |-> s, c |-> IdleCtx]
        ELSE [s |-> s, c |-> Call(VectorOf(lvterr), 0)]

\* vlapic_error: read LVTERR, decide between injecting and folding
vlapic_error_lvt(s, c) ==
    LET lvterr == s.lvt[LVTERR]
    IN  IF (lvterr \div APIC_LVT_MASKED) % 2 = 1
        THEN [s |-> s, c |-> IdleCtx]
        ELSE IF APIC_VECTOR_VALID(lvterr)
        THEN [s |-> s, c |-> Call(VectorOf(lvterr), 0)]
        ELSE [s |-> s, c |-> [c EXCEPT !.pc = "fold", !.bit = ESR_RECVILL_BIT]]

\* vlapic_error: set_bit(ilog2(APIC_ESR_RECVILL), &pending_esr)
vlapic_error_fold(s, c) ==
    [s |-> [s EXCEPT !.pending_esr = @ \cup {ESR_RECVILL_BIT}],
     c |-> IdleCtx]

vlapic_step(s, c) ==
    CASE c.pc = "set_irq"   -> vlapic_set_irq_tmr(s, c)
      [] c.pc = "deliver"   -> vlapic_set_irq_deliver(s, c)
      [] c.pc = "error"     -> vlapic_error_tas(s, c)
      [] c.pc = "error_lvt" -> vlapic_error_lvt(s, c)
      [] c.pc = "fold"      -> vlapic_error_fold(s, c)

\* a call run to its return without interleaving
RECURSIVE vlapic_run(_, _)
vlapic_run(s, c) ==
    IF c.pc = "idle" THEN [s |-> s, c |-> c]
    ELSE LET r == vlapic_step(s, c) IN vlapic_run(r.s, r.c)

vlapic_set_irq(s, vec, trig) == vlapic_run(s, Call(vec, trig)).s

vlapic_error(s, err_bit) == vlapic_run(s, ErrorCall(err_bit)).s

----------------------------------------------------------------------------
(* Processor priority *)

vlapic_find_highest_isr(s) == vlapic_find_highest_vector(s.isr)

\* the comparison of the two priority classes in vlapic_get_ppr
TprClassGe(tpr, isrv) == HighNibble(tpr) >= HighNibble(isrv)

TprClassGt(tpr, isrv) == HighNibble(tpr) > HighNibble(isrv)

ppr_takes_tpr(tpr, isrv) == TprClassGe(tpr, isrv)

vlapic_get_ppr(s) ==
    LET tpr  == s.taskpri
        isr  == vlapic_find_highest_isr(s)
        isrv == IF isr # -1 THEN isr ELSE 0
    IN  IF ppr_takes_tpr(tpr, isrv) THEN VectorOf(tpr) ELSE HighNibble(isrv)

vlapic_set_ppr(s) == [s EXCEPT !.procpri = vlapic_get_ppr(s)]

----------------------------------------------------------------------------
(* Viridian APIC assist and synthetic interrupts (viridian/synic.c): the   *)
(* hypervisor sets "no EOI required" in the guest's assist page and        *)
(* remembers that an assist is pending; a guest that skips its EOI clears  *)
(* the bit.                                                                *)

\* an assist that is never offered
AssistNeverSet(s) == s

viridian_apic_assist_set(s) ==
    IF ~hvm.apic_assist THEN s
    ELSE [s EXCEPT !.assist_pending = TRUE, !.no_eoi = TRUE]

\* an assist that never reads as completed
AssistNeverCompleted(s) == [ret |-> FALSE, s |-> s]

\* true iff an EOI was avoided; the pending assist is consumed
viridian_apic_assist_completed(s) ==
    IF hvm.apic_assist /\ s.assist_pending /\ ~s.no_eoi
    THEN [ret |-> TRUE, s |-> [s EXCEPT !.assist_pending = FALSE]]
    ELSE [ret |-> FALSE, s |-> s]

viridian_apic_assist_clear(s) ==
    IF ~hvm.apic_assist THEN s
    ELSE [s EXCEPT !.assist_pending = FALSE, !.no_eoi = FALSE]

\* the vectors the guest has routed synthetic interrupt sources to
SintVectors == {66}

----------------------------------------------------------------------------
(* End of interrupt *)

Notify(s, who, vector) == [s EXCEPT !.notified = @ \cup {<<who, vector>>}]

\* the trigger-mode test that guards vioapic_update_EOI
EoiIsLevel(s, vector) == vlapic_test_vector(vector, s.tmr)

EoiIsEdge(s, vector) == ~vlapic_test_vector(vector, s.tmr)

eoi_notifies_vioapic(s, vector) == EoiIsLevel(s, vector)

vlapic_handle_EOI(s, vector) ==
    LET s1 == IF eoi_notifies_vioapic(s, vector)
              THEN Notify(s, "vioapic_update_EOI", vector) ELSE s
    IN  Notify(s1, "hvm_dpci_msi_eoi", vector)

\* an end of interrupt that does not test for an empty in-service bitmap
vlapic_EOI_no_check(s, missed_eoi) ==
    LET vector == vlapic_find_highest_isr(s)
        s1 == IF ~missed_eoi THEN viridian_apic_assist_clear(s) ELSE s
        s2 == [s1 EXCEPT !.isr = vlapic_clear_vector(vector, @)]
        s3 == IF hvm.handle_eoi THEN Notify(s2, "handle_eoi", vector) ELSE s2
    IN  vlapic_handle_EOI(s3, vector)

\* vlapic_EOI_set from the label again: on, with missed_eoi as given
RECURSIVE vlapic_EOI_again(_, _)
vlapic_EOI_again(s, missed_eoi) ==
    LET vector == vlapic_find_highest_isr(s)
    IN  IF vector = -1 THEN s
        ELSE LET s1 == IF ~missed_eoi THEN viridian_apic_assist_clear(s) ELSE s
                 s2 == [s1 EXCEPT !.isr = vlapic_clear_vector(vector, @)]
                 s3 == IF hvm.handle_eoi
                       THEN Notify(s2, "handle_eoi", vector) ELSE s2
                 s4 == vlapic_handle_EOI(s3, vector)
             IN  IF missed_eoi THEN vlapic_EOI_again(s4, FALSE) ELSE s4

\* an end of interrupt that leaves the vector in service
EoiNeverSignalled(s) == s

vlapic_EOI_set(s) ==
    LET r == viridian_apic_assist_completed(s)
    IN  vlapic_EOI_again(r.s, r.ret)

----------------------------------------------------------------------------
(* Pending-interrupt query and acknowledgment *)

\* hvm_sync_pir_to_irr: posted requests are merged into IRR
hvm_sync_pir_to_irr(s) ==
    IF hvm.deliver_posted_intr
    THEN [s EXCEPT !.irr = @ \cup s.pir, !.pir = {}]
    ELSE s

\* the comparison of the classes of the pending and the in-service vector
IrrClassLe(irr, isr) == HighNibble(irr) <= HighNibble(isr)

IrrClassLt(irr, isr) == HighNibble(irr) < HighNibble(isr)

irr_is_masked_by(irr, isr) == IrrClassLe(irr, isr)

\* vlapic_has_pending_irq past the enabled check.
\* poll: the vector viridian_synic_poll asserts (0: none);
\* guestmode: nestedhvm_vcpu_in_guestmode(v)
has_pending_irq_enabled(s, poll, guestmode) ==
    LET s1  == IF hvm.synic /\ poll # 0 THEN vlapic_set_irq(s, poll, 0) ELSE s
        s2  == hvm_sync_pir_to_irr(s1)
        irr == vlapic_find_highest_vector(s2.irr)
    IN  IF irr = -1 THEN [ret |-> -1, s |-> s2]
        ELSE IF hvm.virtual_intr_delivery /\ ~guestmode
        THEN [ret |-> irr, s |-> s2]
        ELSE
        LET r   == viridian_apic_assist_completed(s2)
            s3  == IF r.ret THEN vlapic_EOI_set(r.s) ELSE r.s
            isr == vlapic_find_highest_isr(s3)
        IN  IF isr >= 0 /\ irr_is_masked_by(irr, isr)
            THEN [ret |-> -1, s |-> viridian_apic_assist_clear(s3)]
            ELSE [ret |-> irr, s |-> s3]

\* a query that does not test the disabled flags
has_pending_irq_unchecked(s, poll, guestmode) ==
    has_pending_irq_enabled(s, poll, guestmode)

vlapic_has_pending_irq(s, poll, guestmode) ==
    IF ~vlapic_enabled(s) THEN [ret |-> -1, s |-> s]
    ELSE has_pending_irq_enabled(s, poll, guestmode)

\* vlapic_clear_irr; the vector's wake count starts again
vlapic_clear_irr(vector, s) ==
    [s EXCEPT !.irr = vlapic_clear_vector(vector, @),
              !.wakes = [v \in DOMAIN @ |-> IF v = vector THEN 0 ELSE @[v]],
              !.asserts = [v \in DOMAIN @ |-> IF v = vector THEN 0 ELSE @[v]]]

\* the in-service bitmap after the acknowledgment marks the vector
AckMarksIsr(vector, bitmap) == vlapic_set_vector(vector, bitmap)

AckSkipsIsr(vector, bitmap) == bitmap

ack_isr(vector, bitmap) == AckMarksIsr(vector, bitmap)

\* auto_eoi: viridian_synic_is_auto_eoi_sint(v, vector)
vlapic_ack_pending_irq(s, vector, force_ack, auto_eoi) ==
    IF ~force_ack /\ hvm.virtual_intr_delivery THEN [ret |-> 1, s |-> s]
    ELSE
    LET s1 == IF ~hvm.apic_assist \/ vlapic_test_vector(vector, s.tmr)
              THEN s
              ELSE IF vlapic_find_highest_isr(s) = -1 /\ vector > 16
                   THEN viridian_apic_assist_set(s) ELSE s
        s2 == IF ~hvm.synic \/ ~auto_eoi
              THEN [s1 EXCEPT !.isr = ack_isr(vector, @)] ELSE s1
    IN  [ret |-> 1, s |-> vlapic_clear_irr(vector, s2)]

\* a delivery that does not test the disabled flags
vlapic_accept_irq_unchecked(s, vector) == vlapic_set_irq(s, vector, 0)

\* vlapic_accept_irq, APIC_DM_FIXED and APIC_DM_LOWEST
vlapic_accept_irq(s, vector) ==
    IF vlapic_enabled(s) THEN vlapic_set_irq(s, vector, 0) ELSE s

----------------------------------------------------------------------------
(* Reset and mode *)

\* A value of MSR_APIC_BASE, by field: addr is val & APIC_BASE_ADDR_MASK as
\* a page number, enable/extd/bsp the bits APIC_BASE_ENABLE, APIC_BASE_EXTD
\* and APIC_BASE_BSP, rsvd whether any other bit is set
ApicBase(addr, enable, extd, bsp, rsvd) ==
    [addr |-> addr, enable |-> enable, extd |-> extd, bsp |-> bsp, rsvd |-> rsvd]

\* 0xfee00000 >> 12
APIC_DEFAULT_PHYS_BASE == 1043968

\* the timer.  Times are guest-time nanoseconds; pt is the registration with
\* the periodic-timer subsystem: whether it exists, when it expires, its
\* period (0 for a single shot) and its callback.
APIC_BUS_CYCLE_NS == 10

APIC_TIMER_MODE_ONESHOT == 0

APIC_TIMER_MODE_PERIODIC == 2^17

APIC_TIMER_MODE_TSC_DEADLINE == 2^18

LVTT == 0

\* lvtt & APIC_TIMER_MODE_MASK
lvtt_mode(lvtt) == ((lvtt \div (2^17)) % 4) * (2^17)

vlapic_lvtt_period(s) == lvtt_mode(s.lvt[LVTT]) = APIC_TIMER_MODE_PERIODIC

vlapic_lvtt_oneshot(s) == lvtt_mode(s.lvt[LVTT]) = APIC_TIMER_MODE_ONESHOT

vlapic_lvtt_tdt(s) == lvtt_mode(s.lvt[LVTT]) = APIC_TIMER_MODE_TSC_DEADLINE

NoTimer == [active |-> FALSE, expires |-> 0, period |-> 0, cb |-> "none"]

\* a teardown that leaves the registration in place
KeepPeriodicTime(s) == s

destroy_periodic_time(s) == [s EXCEPT !.pt = NoTimer]

\* create_periodic_time at guest time now; pt.last_plt_gtime is now
create_periodic_time(s, now, delta, period, cb) ==
    [s EXCEPT !.pt = [active |-> TRUE, expires |-> now + delta,
                      period |-> period, cb |-> cb]]

\* vlapic_set_tdcr: bits 0, 1 and 3 are kept and demangled into the divisor
vlapic_set_tdcr(s, val) ==
    LET v     == (val % 4) + ((val \div 8) % 2) * 8
        shift == ((v % 4) + ((v \div 8) % 2) * 4 + 1) % 8
    IN  [s EXCEPT !.tdcr = v, !.timer_divisor = 2^shift]

vlapic_x2apic_mode(s) == s.apic_base_msr.extd

\* vlapic_xapic_mode: enabled and not in extended addressing
vlapic_xapic_mode(s) == s.apic_base_msr.enable /\ ~s.apic_base_msr.extd

x2apic_ldr_from_id(id) ==
    ShiftLeft(id \ (0..3), 12)
        \cup { b \in 0..15 : LowBits(id, 4) = LowBits(WordOf(b), 4) }

\* set_x2apic_id; with bug_x2apic_ldr_vcpu_id latched the logical
\* destination is derived from the vcpu index, as the source host did
set_x2apic_id(s) ==
    LET apic_id  == WordOf(s.vcpu_id * 2)
        apic_ldr == IF s.bug_x2apic_ldr_vcpu_id
                    THEN x2apic_ldr_from_id(WordOf(s.vcpu_id))
                    ELSE x2apic_ldr_from_id(apic_id)
    IN  [s EXCEPT !.id = apic_id, !.ldr = apic_ldr]

\* nothing loaded: memset(&vlapic->loaded, 0, sizeof(vlapic->loaded))
NotLoaded == [hw |-> FALSE, regs |-> FALSE, id |-> {}, ldr |-> {}]

\* an INIT that clears the logical destination in either mode
DoInitClearsLdr(s) == FALSE

\* vlapic_do_init: LDR is read-only in x2APIC mode and preserved
do_init_keeps_ldr(s) == vlapic_x2apic_mode(s)

\* vlapic_do_init: the shared reset routine
vlapic_do_init(s) ==
  destroy_periodic_time(
    [s EXCEPT !.irr = {}, !.isr = {}, !.tmr = {},
              !.icr = 0, !.icr2 = {},
              !.tmict = 0,
              !.tdcr = vlapic_set_tdcr(s, 0).tdcr,
              !.timer_divisor = vlapic_set_tdcr(s, 0).timer_divisor,
              !.ldr = IF do_init_keeps_ldr(s) THEN @ ELSE {},
              !.taskpri = 0,
              !.dfr = AllOnes,
              !.lvt = [i \in 0..(VLAPIC_LVT_NUM - 1) |-> APIC_LVT_MASKED],
              !.spiv = 255,
              !.disabled = @ \cup {VLAPIC_SW_DISABLED},
              !.wakes = [v \in DOMAIN @ |-> 0],
              !.asserts = [v \in DOMAIN @ |-> 0]])

\* vlapic_reset; vcpu 0 is the bootstrap processor
vlapic_reset(s) ==
    vlapic_do_init([s EXCEPT !.apic_base_msr =
                        ApicBase(APIC_DEFAULT_PHYS_BASE, TRUE, FALSE,
                                 s.vcpu_id = 0, FALSE),
                             !.id = ShiftLeft(WordOf(s.vcpu_id * 2), 24)])

\* vlapic_init of the controller of vcpu vcpu_id: a zeroed structure, then
\* vlapic_reset
vlapic_init_vcpu(vcpu_id) ==
    vlapic_reset(
        [vcpu_id |-> vcpu_id, id |-> {}, ldr |-> {}, dfr |-> {},
         icr |-> 0, icr2 |-> {},
         init_sipi |-> [icr |-> 0, dest |-> {}],
         tmict |-> 0, tdcr |-> 0, timer_divisor |-> 0,
         timer_last_update |-> 0, tdt_msr |-> 0, pt |-> NoTimer, pt_irq |-> 0,
         irr |-> {}, isr |-> {}, tmr |-> {}, pir |-> {},
         taskpri |-> 0, procpri |-> 0,
         lvt |-> [i \in 0..(VLAPIC_LVT_NUM - 1) |-> 0],
         spiv |-> 0, esr |-> {}, pending_esr |-> {}, disabled |-> {},
         apic_base_msr |-> ApicBase(0, FALSE, FALSE, FALSE, FALSE),
         loaded |-> [hw |-> FALSE, regs |-> FALSE, id |-> {}, ldr |-> {}],
         x2apic |-> FALSE, bug_x2apic_ldr_vcpu_id |-> FALSE,
         assist_pending |-> FALSE, no_eoi |-> FALSE,
         wakes |-> [v \in LegalVectors |-> 0],
         asserts |-> [v \in LegalVectors |-> 0],
         notified |-> {}])

\* the controller of vcpu 0
vlapic_init == vlapic_init_vcpu(0)

\* a write that may toggle EXTD in any mode
ExtdToggleAllowed(s, val) == FALSE

\* guest_wrmsr_apic_base, enable bit unchanged: EXTD toggles only out of
\* xAPIC mode
extd_toggle_refused(s, val) ==
    s.apic_base_msr.extd # val.extd /\ ~vlapic_xapic_mode(s)

\* guest_wrmsr_apic_base: ret 0 is X86EMUL_OKAY, 1 is X86EMUL_EXCEPTION.
\* s.x2apic is cp->basic.x2apic of the domain's policy; without it EXTD is
\* a reserved bit.
guest_wrmsr_apic_base(s, val) ==
    IF val.rsvd \/ (val.extd /\ ~s.x2apic)
    THEN [ret |-> 1, s |-> s]
    ELSE IF val.enable /\ ~val.extd /\ val.addr # APIC_DEFAULT_PHYS_BASE
    THEN [ret |-> 1, s |-> s]
    ELSE IF s.apic_base_msr.enable # val.enable /\ val.extd
    THEN [ret |-> 1, s |-> s]
    ELSE IF s.apic_base_msr.enable = val.enable /\ extd_toggle_refused(s, val)
    THEN [ret |-> 1, s |-> s]
    ELSE
    LET s1 == IF s.apic_base_msr.enable # val.enable
              THEN IF val.enable
                   THEN [vlapic_reset(s) EXCEPT !.disabled = @ \ {VLAPIC_HW_DISABLED}]
                   ELSE [s EXCEPT !.disabled = @ \cup {VLAPIC_HW_DISABLED}]
              ELSE s
        s2 == [s1 EXCEPT !.apic_base_msr = val, !.loaded = NotLoaded]
    IN  [ret |-> 0,
         s   |-> IF vlapic_x2apic_mode(s2) THEN set_x2apic_id(s2) ELSE s2]

----------------------------------------------------------------------------
(* Register writes by the owning vcpu (vlapic_reg_write) *)

\* case APIC_TASKPRI
reg_write_taskpri(s, val) == [s EXCEPT !.taskpri = VectorOf(val)]

\* case APIC_SPIV; evtchn_upcall_vector is nonzero only while an event
\* channel upcall is pending
reg_write_spiv(s, val) ==
    IF ~Bit(val, APIC_SPIV_APIC_ENABLED)
    THEN [s EXCEPT !.spiv = val % 1024,
                   !.disabled = @ \cup {VLAPIC_SW_DISABLED},
                   !.lvt = [i \in 0..(VLAPIC_LVT_NUM - 1) |->
                               IF Bit(@[i], APIC_LVT_MASKED)
                               THEN @[i] ELSE @[i] + APIC_LVT_MASKED]]
    ELSE LET s1 == [s EXCEPT !.spiv = val % 1024,
                             !.disabled = @ \ {VLAPIC_SW_DISABLED}]
         IN  IF hvm.evtchn_upcall_vector # 0
             THEN vlapic_set_irq(s1, hvm.evtchn_upcall_vector, 0)
             ELSE s1

\* vlapic_lvt_mask[LVTERR] = LVT_MASK: masked, send-pending, vector
LvtErrMask(val) ==
    (IF Bit(val, APIC_LVT_MASKED) THEN APIC_LVT_MASKED ELSE 0)
        + (IF Bit(val, 2^12) THEN 4096 ELSE 0) + VectorOf(val)

\* case APIC_LVTERR
reg_write_lvterr(s, val) ==
    LET v1 == IF vlapic_sw_disabled(s) /\ ~Bit(val, APIC_LVT_MASKED)
              THEN val + APIC_LVT_MASKED ELSE val
    IN  [s EXCEPT !.lvt[LVTERR] = LvtErrMask(v1)]

\* case APIC_ESR: val = xchg(&pending_esr, 0)
reg_write_esr(s) ==
    [s EXCEPT !.esr = s.pending_esr, !.pending_esr = {}]

----------------------------------------------------------------------------
(* Actions of the asserting contexts, one shared-memory access per step *)

\* a context calls vlapic_set_irq(vlapic, vec, trig): the call's first step
SetIrqCall(c, vec, trig) ==
    /\ ctx[c].pc = "idle"
    /\ LET r == vlapic_step(vlapic, Call(vec, trig))
       IN  /\ vlapic' = r.s
           /\ ctx' = [ctx EXCEPT ![c] = r.c]
    /\ UNCHANGED <<hvm, op, ret, domain>>

\* a context calls vlapic_accept_irq(v, icr_low) with a fixed or
\* lowest-priority command: the enabled check, then vlapic_set_irq(.., 0)
AcceptIrqCall(c, vec) ==
    /\ ctx[c].pc = "idle"
    /\ vlapic_enabled(vlapic)
    /\ ctx' = [ctx EXCEPT ![c] = Call(vec, 0)]
    /\ UNCHANGED <<vlapic, hvm, op, ret, domain>>

\* the next shared-memory access of a call in progress
CtxStep(c) ==
    /\ ctx[c].pc # "idle"
    /\ LET r == vlapic_step(vlapic, ctx[c])
       IN  /\ vlapic' = r.s
           /\ ctx' = [ctx EXCEPT ![c] = r.c]
    /\ UNCHANGED <<hvm, op, ret, domain>>

----------------------------------------------------------------------------
(* Actions that run a whole operation.  op names the operation and its     *)
(* arguments, ret its return value; notified holds the collaborators the   *)
(* operation notified.                                                     *)

Op(name, arg, flag) == [name |-> name, arg |-> arg, flag |-> flag]

\* the state an operation starts from
Begin == [vlapic EXCEPT !.notified = {}]

SetIrq(vec, trig) ==
    /\ vlapic' = vlapic_set_irq(Begin, vec, trig)
    /\ op' = Op("set_irq", vec, 0)
    /\ ret' = 0
    /\ UNCHANGED <<hvm, ctx, domain>>

AcceptIrq(vec) ==
    /\ vlapic' = vlapic_accept_irq(Begin, vec)
    /\ op' = Op("accept_irq", 0, 0)
    /\ ret' = 0
    /\ UNCHANGED <<hvm, ctx, domain>>

HasPendingIrq(poll, guestmode) ==
    /\ LET r == vlapic_has_pending_irq(Begin, poll, guestmode)
       IN  /\ vlapic' = r.s
           /\ ret' = r.ret
    /\ op' = Op("has_pending_irq", 0, 0)
    /\ UNCHANGED <<hvm, ctx, domain>>

\* the execution loop injects the vector the query returned
AckPendingIrq(force_ack, auto_eoi) ==
    /\ op.name = "has_pending_irq"
    /\ ret # -1
    /\ auto_eoi => (hvm.synic /\ ret \in SintVectors)
    /\ LET r == vlapic_ack_pending_irq(Begin, ret, force_ack, auto_eoi)
       IN  /\ vlapic' = r.s
           /\ ret' = r.ret
    /\ op' = Op("ack_pending_irq", ret,
                (IF force_ack THEN 1 ELSE 0) + (IF auto_eoi THEN 2 ELSE 0))
    /\ UNCHANGED <<hvm, ctx, domain>>

\* vlapic_reg_write, case APIC_EOI
EoiWrite ==
    /\ vlapic' = vlapic_EOI_set(Begin)
    /\ op' = Op("eoi_write", 0, 0)
    /\ ret' = 0
    /\ UNCHANGED <<hvm, ctx, domain>>

\* the guest skips an EOI the assist page says is not required
GuestSkipEoi ==
    /\ vlapic.no_eoi
    /\ vlapic' = [Begin EXCEPT !.no_eoi = FALSE]
    /\ op' = Op("guest_skip_eoi", 0, 0)
    /\ ret' = 0
    /\ UNCHANGED <<hvm, ctx, domain>>

TaskpriWrite(val) ==
    /\ vlapic' = reg_write_taskpri(Begin, val)
    /\ op' = Op("taskpri_write", 0, 0)
    /\ ret' = 0
    /\ UNCHANGED <<hvm, ctx, domain>>

\* a read of APIC_PROCPRI (vlapic_read_aligned)
ProcpriRead ==
    /\ vlapic' = Begin
    /\ op' = Op("procpri_read", 0, 0)
    /\ ret' = vlapic_get_ppr(vlapic)
    /\ UNCHANGED <<hvm, ctx, domain>>

SetPpr ==
    /\ vlapic' = vlapic_set_ppr(Begin)
    /\ op' = Op("set_ppr", 0, 0)
    /\ ret' = vlapic_get_ppr(vlapic)
    /\ UNCHANGED <<hvm, ctx, domain>>

SpivWrite(val) ==
    /\ vlapic' = reg_write_spiv(Begin, val)
    /\ op' = Op("spiv_write", 0, 0)
    /\ ret' = 0
    /\ UNCHANGED <<hvm, ctx, domain>>

LvterrWrite(val) ==
    /\ vlapic' = reg_write_lvterr(Begin, val)
    /\ op' = Op("lvterr_write", 0, 0)
    /\ ret' = 0
    /\ UNCHANGED <<hvm, ctx, domain>>

EsrWrite ==
    /\ vlapic' = reg_write_esr(Begin)
    /\ op' = Op("esr_write", 0, 0)
    /\ ret' = 0
    /\ UNCHANGED <<hvm, ctx, domain>>

ApicBaseWrite(val) ==
    /\ LET r == guest_wrmsr_apic_base(Begin, val)
       IN  /\ vlapic' = r.s
           /\ ret' = r.ret
    /\ op' = Op("wrmsr_apic_base", 0, 0)
    /\ UNCHANGED <<hvm, ctx, domain>>

----------------------------------------------------------------------------
(* Spec: the operations of one controller, each run as a whole *)

\* enable at the default base, disable
ApicBaseValues == {ApicBase(APIC_DEFAULT_PHYS_BASE, TRUE, FALSE, TRUE, FALSE),
                   ApicBase(APIC_DEFAULT_PHYS_BASE, FALSE, FALSE, TRUE, FALSE)}

\* 0x31 edge, 0x35 level, 0x42 edge or level
Asserts == {<<49, 0>>, <<53, 1>>, <<66, 0>>, <<66, 1>>}

\* 0x05, 0x0f: below the legal range
IllegalAsserts == {<<5, 0>>, <<15, 1>>}

IpiVectors == {49, 66}

Init ==
    /\ vlapic = vlapic_init
    /\ hvm \in Platforms
    /\ ctx = [c \in Contexts |-> IdleCtx]
    /\ domain = NoDomain
    /\ op = Op("init", 0, 0)
    /\ ret = 0

Next ==
    \/ \E a \in Asserts : SetIrq(a[1], a[2])
    \/ \E vec \in IpiVectors : AcceptIrq(vec)
    \/ \E poll \in {0} \cup SintVectors, guestmode \in BOOLEAN :
          HasPendingIrq(poll, guestmode)
    \/ \E force_ack \in BOOLEAN, auto_eoi \in BOOLEAN :
          AckPendingIrq(force_ack, auto_eoi)
    \/ EoiWrite
    \/ GuestSkipEoi
    \/ \E val \in SpivValues : SpivWrite(val)
    \/ \E val \in ApicBaseValues : ApicBaseWrite(val)

Spec == Init /\ [][Next]_vars

----------------------------------------------------------------------------
(* SpecRace: contexts asserting concurrently, step by step, against the    *)
(* owning vcpu's query, acknowledgment and end of interrupt                *)

\* 0x31 edge, 0x42 edge or level
RaceAsserts == {<<49, 0>>, <<66, 0>>, <<66, 1>>}

InitRace ==
    /\ vlapic = vlapic_init
    /\ hvm = Platform(FALSE, FALSE, FALSE, FALSE, FALSE, 0)
    /\ ctx = [c \in Contexts |-> IdleCtx]
    /\ domain = NoDomain
    /\ op = Op("init", 0, 0)
    /\ ret = 0

NextRace ==
    \/ \E c \in Contexts, a \in RaceAsserts : SetIrqCall(c, a[1], a[2])
    \/ \E c \in Contexts, vec \in IpiVectors : AcceptIrqCall(c, vec)
    \/ \E c \in Contexts : CtxStep(c)
    \/ HasPendingIrq(0, FALSE)
    \/ AckPendingIrq(FALSE, FALSE)
    \/ EoiWrite
    \/ \E val \in SpivValues : SpivWrite(val)

SpecRace == InitRace /\ [][NextRace]_vars

----------------------------------------------------------------------------
(* SpecErr: illegal vectors and the error-status path *)

InitErr ==
    /\ vlapic = vlapic_init
    /\ hvm \in { p \in Platforms : ~p.apic_assist }
    /\ ctx = [c \in Contexts |-> IdleCtx]
    /\ domain = NoDomain
    /\ op = Op("init", 0, 0)
    /\ ret = 0

NextErr ==
    \/ \E a \in Asserts \cup IllegalAsserts : SetIrq(a[1], a[2])
    \/ \E val \in SpivValues : SpivWrite(val)
    \/ \E val \in LvterrValues : LvterrWrite(val)
    \/ EsrWrite

SpecErr == InitErr /\ [][NextErr]_vars

----------------------------------------------------------------------------
(* SpecPpr: processor priority over task priorities and in-service sets *)

\* task-priority values: classes 0, 2, 3, 4 and 15, low nibbles 0 to 15
TprValues == {0, 5, 32, 47, 48, 49, 53, 63, 64, 66, 79, 255}

\* in-service vectors, in the words 0, 1, 2 and 7 of the bitmap
IsrVectors == {16, 49, 53, 66, 255}

InitPpr ==
    /\ \E tpr \in TprValues, isr \in SUBSET IsrVectors :
          vlapic = [vlapic_init EXCEPT !.taskpri = tpr, !.isr = isr]
    /\ hvm = Platform(FALSE, FALSE, FALSE, FALSE, FALSE, 0)
    /\ ctx = [c \in Contexts |-> IdleCtx]
    /\ domain = NoDomain
    /\ op = Op("init", 0, 0)
    /\ ret = 0

NextPpr ==
    \/ ProcpriRead
    \/ SetPpr
    \/ \E val \in TprValues : TaskpriWrite(val)

SpecPpr == InitPpr /\ [][NextPpr]_vars

----------------------------------------------------------------------------
(* Observations used by the properties *)

Highest(bitmap) == IF bitmap = {} THEN -1 ELSE SetMax(bitmap)

\* the controller state without the log of notifications
StateOf(s) == [s EXCEPT !.notified = {}]

AllIdle == \A c \in Contexts : ctx[c].pc = "idle"

\* context c has just made the in-request access of its call
Delivered(c) == ctx[c].pc = "deliver" /\ ctx'[c] # ctx[c]

\* the in-request access of an assert: a wake iff the bit went 0 -> 1
WakeOnlyOnTransition ==
    \A c \in Contexts :
        Delivered(c) =>
            LET v == ctx[c].vec
            IN  IF v \in vlapic.irr
                THEN vlapic'.irr = vlapic.irr /\ vlapic'.wakes = vlapic.wakes
                ELSE /\ vlapic'.irr = vlapic.irr \cup {v}
                     /\ vlapic'.wakes = [vlapic.wakes EXCEPT ![v] = 1]

\* the processor priority by the rule of the manual, from the largest
\* in-service vector
PprReference ==
    LET tpr  == vlapic.taskpri
        isrv == IF vlapic.isr = {} THEN 0 ELSE SetMax(vlapic.isr)
    IN  IF HighNibble(tpr) >= HighNibble(isrv) THEN tpr ELSE HighNibble(isrv)

----------------------------------------------------------------------------
(* C1: without posted delivery, asserts of one vector with no              *)
(* acknowledgment in between wake the target at most once: the assert that *)
(* finds the in-request bit clear sets it and wakes; an assert that finds  *)
(* it set changes nothing in the in-request bitmap and sends no wake.      *)

C1_AtMostOneWake ==
    /\ [](\A v \in LegalVectors : vlapic.wakes[v] <= 1)
    /\ [][WakeOnlyOnTransition]_vars

\* one vector asserted twice with no acknowledgment between, one wake
C1_Witness ==
    \E v \in LegalVectors :
        vlapic.asserts[v] >= 2 /\ vlapic.wakes[v] = 1 /\ v \in vlapic.irr

----------------------------------------------------------------------------
(* C2: whatever the interleaving of concurrent asserts of legal vectors    *)
(* (no posted delivery), the in-request bit of every vector whose assert   *)
(* has been made is set until it is acknowledged, no other in-request bit  *)
(* is set, and nothing is recorded in the error status.                    *)

C2_NoLostAssert ==
    /\ \A v \in LegalVectors : (vlapic.asserts[v] >= 1) <=> (v \in vlapic.irr)
    /\ vlapic.irr \subseteq LegalVectors
    /\ vlapic.pending_esr = {} /\ vlapic.esr = {}

\* every call has returned; two of them asserted 0x42, another 0x31
C2_Witness ==
    /\ AllIdle
    /\ vlapic.asserts[66] >= 2 /\ vlapic.asserts[49] >= 1
    /\ {49, 66} \subseteq vlapic.irr

----------------------------------------------------------------------------
(* C3, as stated: while the software-disabled or the hardware-disabled     *)
(* flag is set, no assert call and no inter-processor interrupt delivery   *)
(* sets a bit of the in-request bitmap.                                    *)

C3_Original_DisabledAcceptsNothing ==
    [][(vlapic.disabled # {} /\ op'.name \in {"set_irq", "accept_irq"})
          => vlapic'.irr \subseteq vlapic.irr]_vars

(* C3, amended: while either flag is set, an inter-processor interrupt     *)
(* delivery (fixed or lowest priority) changes nothing in the in-request   *)
(* and trigger-mode bitmaps and wakes nobody; the assert call itself does  *)
(* not test the flags, and without posted delivery it leaves the           *)
(* in-request bit of the legal vector it names set.                        *)

C3_DisabledDropsDelivery ==
    [][vlapic.disabled # {} =>
          /\ op'.name = "accept_irq" =>
                /\ vlapic'.irr = vlapic.irr /\ vlapic'.tmr = vlapic.tmr
                /\ vlapic'.pir = vlapic.pir /\ vlapic'.wakes = vlapic.wakes
          /\ (op'.name = "set_irq" /\ ~hvm.deliver_posted_intr) =>
                op'.arg \in vlapic'.irr]_vars

\* a delivery to a disabled controller has been dropped
C3_Witness ==
    /\ op.name = "accept_irq"
    /\ vlapic.disabled # {}
    /\ vlapic.irr = {}

----------------------------------------------------------------------------
(* C4: asserting a vector below 16 sets the receive-illegal-vector bit of  *)
(* the pending error status and leaves the in-request and trigger-mode     *)
(* bits of that vector clear; the only in-request bit the call can set is  *)
(* that of the vector of the error local-vector-table entry, and only when *)
(* that entry is unmasked and its vector legal.                            *)

C4_IllegalVectorRejected ==
    [][(op'.name = "set_irq" /\ ~APIC_VECTOR_VALID(op'.arg)) =>
          LET lvterr == vlapic.lvt[LVTERR]
              before == vlapic.irr \cup vlapic.pir
              after  == vlapic'.irr \cup vlapic'.pir
          IN  /\ ESR_RECVILL_BIT \in vlapic'.pending_esr
              /\ op'.arg \notin after
              /\ op'.arg \notin vlapic'.tmr
              /\ (after \ before) \subseteq {VectorOf(lvterr)}
              /\ before \subseteq after
              /\ after # before => /\ ~Bit(lvterr, APIC_LVT_MASKED)
                                   /\ APIC_VECTOR_VALID(lvterr)]_vars

\* vector 0x0f was asserted level-triggered: the error is pending, and the
\* error interrupt 0x42 was injected
C4_Witness ==
    /\ op.name = "set_irq" /\ op.arg = 15
    /\ ESR_RECVILL_BIT \in vlapic.pending_esr
    /\ vlapic.lvt[LVTERR] = 66
    /\ vlapic.asserts[66] >= 1
    /\ 15 \notin vlapic.tmr

----------------------------------------------------------------------------
(* C5: the processor priority is the task-priority byte when the class     *)
(* (high nibble) of the task priority is >= the class of the highest       *)
(* in-service vector (0 when none is in service), else that class with a   *)
(* zero low nibble; its class is the larger of the two classes; computing  *)
(* it again with no write in between returns the same value.               *)

C5_PprRule ==
    /\ [](LET tpr  == vlapic.taskpri
              isrv == IF vlapic.isr = {} THEN 0 ELSE SetMax(vlapic.isr)
              ppr  == vlapic_get_ppr(vlapic)
          IN  /\ ppr = PprReference
              /\ HighNibble(ppr) = IF HighNibble(tpr) >= HighNibble(isrv)
                                   THEN HighNibble(tpr) ELSE HighNibble(isrv)
              /\ op.name \in {"procpri_read", "set_ppr"} => ret = PprReference
              /\ op.name = "set_ppr" => vlapic.procpri = PprReference)
    /\ [][(op.name \in {"procpri_read", "set_ppr"}
             /\ op'.name \in {"procpri_read", "set_ppr"}) => ret' = ret]_vars

\* the tie: task priority 0x35 and in-service vector 0x31 are of one class,
\* and the priority read is the task-priority byte
C5_Witness ==
    /\ op.name = "procpri_read"
    /\ vlapic.taskpri = 53
    /\ Highest(vlapic.isr) = 49
    /\ ret = 53

----------------------------------------------------------------------------
(* C6: the pending-interrupt query of a controller whose software-disabled *)
(* or hardware-disabled flag is set returns -1, whatever the in-request    *)
(* bitmap holds, and changes no controller state.                          *)

C6_DisabledQuery ==
    [][(op'.name = "has_pending_irq" /\ vlapic.disabled # {}) =>
          /\ ret' = -1
          /\ StateOf(vlapic') = StateOf(vlapic)
          /\ vlapic'.notified = {}]_vars

\* the query of a disabled controller with a request pending
C6_Witness ==
    /\ op.name = "has_pending_irq"
    /\ vlapic.disabled # {}
    /\ vlapic.irr # {}
    /\ ret = -1

----------------------------------------------------------------------------
(* C7, as stated: on an enabled controller without direct virtual-         *)
(* interrupt delivery the query returns the highest in-request vector iff  *)
(* its class is strictly above the class of the highest in-service vector  *)
(* (or nothing is in service); otherwise it returns -1 and clears the      *)
(* pending acceleration state.  A vector it returns is in request.         *)
(* (The bitmaps are read as the query leaves them, after the poll and the  *)
(* replay of an elided end of interrupt.)                                  *)

C7_Original_QueryRule ==
    [][(op'.name = "has_pending_irq" /\ vlapic.disabled = {}
           /\ ~hvm.virtual_intr_delivery) =>
          LET irr == Highest(vlapic'.irr)
              isr == Highest(vlapic'.isr)
          IN  IF irr # -1 /\ (isr = -1 \/ HighNibble(irr) > HighNibble(isr))
              THEN ret' = irr /\ ret' \in vlapic'.irr
              ELSE /\ ret' = -1
                   /\ ~vlapic'.assist_pending /\ ~vlapic'.no_eoi]_vars

(* C7, amended: as stated when a vector is in request; when the in-request *)
(* bitmap is empty the query returns -1 and leaves the pending             *)
(* acceleration state as it was.                                           *)

C7_QueryRule ==
    [][(op'.name = "has_pending_irq" /\ vlapic.disabled = {}
           /\ ~hvm.virtual_intr_delivery) =>
          LET irr == Highest(vlapic'.irr)
              isr == Highest(vlapic'.isr)
          IN  IF irr = -1
              THEN /\ ret' = -1
                   /\ vlapic'.assist_pending = vlapic.assist_pending
                   /\ vlapic'.no_eoi = vlapic.no_eoi
              ELSE IF isr = -1 \/ HighNibble(irr) > HighNibble(isr)
              THEN ret' = irr /\ ret' \in vlapic'.irr
              ELSE /\ ret' = -1
                   /\ ~vlapic'.assist_pending /\ ~vlapic'.no_eoi]_vars

\* 0x35 is in request while 0x31, of the same class, is in service: the
\* query answered -1
C7_Witness ==
    /\ op.name = "has_pending_irq"
    /\ vlapic.disabled = {} /\ ~hvm.virtual_intr_delivery
    /\ Highest(vlapic.irr) = 53 /\ Highest(vlapic.isr) = 49
    /\ ret = -1

----------------------------------------------------------------------------
(* C8: an acknowledgment that is not the direct-delivery no-op, of a       *)
(* vector no synthetic-interrupt source claims, leaves the vector's        *)
(* in-service bit set and its in-request bit clear and changes no other    *)
(* bit of the three bitmaps; with direct virtual-interrupt delivery and no *)
(* forcing, it changes no bitmap and returns success.                      *)

C8_AckEffects ==
    [][op'.name = "ack_pending_irq" =>
          LET vector == op'.arg
              force  == op'.flag \in {1, 3}
              auto   == op'.flag \in {2, 3}
          IN  /\ (~force /\ hvm.virtual_intr_delivery) =>
                    /\ vlapic'.irr = vlapic.irr /\ vlapic'.isr = vlapic.isr
                    /\ vlapic'.tmr = vlapic.tmr
                    /\ ret' = 1
              /\ ((force \/ ~hvm.virtual_intr_delivery) /\ ~(hvm.synic /\ auto)) =>
                    /\ vector \in vlapic.irr
                    /\ vlapic'.irr = vlapic.irr \ {vector}
                    /\ vlapic'.isr = vlapic.isr \cup {vector}
                    /\ vlapic'.tmr = vlapic.tmr
                    /\ ret' = 1]_vars

\* 0x42 was acknowledged while 0x31 stayed in request
C8_Witness ==
    /\ op.name = "ack_pending_irq" /\ op.arg = 66 /\ op.flag = 0
    /\ ~hvm.virtual_intr_delivery
    /\ 66 \in vlapic.isr /\ 66 \notin vlapic.irr
    /\ 49 \in vlapic.irr

----------------------------------------------------------------------------
(* C9, as stated: an end of interrupt on an empty in-service bitmap        *)
(* changes no controller state (bitmaps, registers, elision state),        *)
(* injects nothing and notifies no collaborator.                           *)

C9_Original_EmptyEoiNoop ==
    [][(op'.name = "eoi_write" /\ vlapic.isr = {}) =>
          /\ StateOf(vlapic') = StateOf(vlapic)
          /\ vlapic'.notified = {}]_vars

(* C9, amended: an end of interrupt on an empty in-service bitmap changes  *)
(* no bitmap and no register, injects nothing and notifies no              *)
(* collaborator; of the elision state it changes one thing only: when an   *)
(* assist was pending and the guest had skipped its end of interrupt, the  *)
(* pending mark is consumed.                                               *)

C9_EmptyEoiNoop ==
    [][(op'.name = "eoi_write" /\ vlapic.isr = {}) =>
          /\ StateOf(vlapic') =
                [StateOf(vlapic) EXCEPT !.assist_pending = vlapic'.assist_pending]
          /\ vlapic'.assist_pending =
                (vlapic.assist_pending /\ ~(hvm.apic_assist /\ ~vlapic.no_eoi))
          /\ vlapic'.notified = {}]_vars

\* an end of interrupt with nothing in service, a request pending
C9_Witness ==
    /\ op.name = "eoi_write"
    /\ vlapic.isr = {} /\ vlapic.notified = {}
    /\ vlapic.irr # {}

----------------------------------------------------------------------------
(* C10, as stated: an end of interrupt for a vector whose trigger-mode bit *)
(* is clear notifies neither the I/O interrupt controller nor the device-  *)
(* interrupt collaborator; both are notified when the bit is set.          *)

----------------------------------------------------------------------------
(* SpecErrRace: contexts raising errors concurrently, step by step,        *)
(* against the owner's writes of the error-status, error-LVT and spurious- *)
(* vector registers                                                        *)

\* a context calls vlapic_error(vlapic, err_bit), as vlapic_ipi does for a
\* command with an illegal vector
ErrorRaiseCall(c, err_bit) ==
    /\ ctx[c].pc = "idle"
    /\ ctx' = [ctx EXCEPT ![c] = ErrorCall(err_bit)]
    /\ UNCHANGED <<vlapic, hvm, op, ret, domain>>

InitErrRace ==
    /\ vlapic = vlapic_init
    /\ hvm = Platform(FALSE, FALSE, FALSE, FALSE, FALSE, 0)
    /\ ctx = [c \in Contexts |-> IdleCtx]
    /\ domain = NoDomain
    /\ op = Op("init", 0, 0)
    /\ ret = 0

NextErrRace ==
    \/ \E c \in Contexts, vec \in IllegalVectors : SetIrqCall(c, vec, 0)
    \/ \E c \in Contexts : ErrorRaiseCall(c, ESR_SENDILL_BIT)
    \/ \E c \in Contexts : CtxStep(c)
    \/ \E val \in SpivValues : SpivWrite(val)
    \/ \E val \in LvterrValues : LvterrWrite(val)
    \/ EsrWrite

SpecErrRace == InitErrRace /\ [][NextErrRace]_vars

\* context c has just made the access of its call at position pc
Stepped(c, pc) == ctx[c].pc = pc /\ ctx'[c] # ctx[c]

----------------------------------------------------------------------------
(* C11: of the raises of one error bit between two writes of the error-    *)
(* status register, only the one that finds the bit clear in the pending   *)
(* accumulator goes on to inject, and it injects the error-LVT vector only *)
(* if that entry is unmasked and its vector legal; a raise that finds the  *)
(* bit set changes nothing.  A write of the error-status register moves    *)
(* the pending bits to the register and empties the accumulator, so the    *)
(* next raise finds the bit clear again.  Nothing but an injection sets an *)
(* in-request bit.                                                         *)

C11_FirstRaiseInjects ==
    [][/\ \A c \in Contexts :
             /\ Stepped(c, "error") =>
                   IF ctx[c].bit \in vlapic.pending_esr
                   THEN vlapic' = vlapic /\ ctx'[c] = IdleCtx
                   ELSE /\ vlapic'.pending_esr = vlapic.pending_esr \cup {ctx[c].bit}
                        /\ vlapic'.irr = vlapic.irr
                        /\ ctx'[c].pc = "error_lvt"
             /\ Stepped(c, "error_lvt") =>
                   LET lvterr == vlapic.lvt[LVTERR]
                   IN  /\ vlapic'.irr = vlapic.irr
                       /\ (ctx'[c].pc = "set_irq") <=>
                             (~Bit(lvterr, APIC_LVT_MASKED) /\ VectorOf(lvterr) >= 16)
                       /\ ctx'[c].pc = "set_irq" =>
                             ctx'[c].vec = VectorOf(lvterr) /\ ctx'[c].trig = 0
             /\ Stepped(c, "deliver") =>
                   vlapic'.irr = vlapic.irr \cup {ctx[c].vec}
       /\ vlapic'.irr # vlapic.irr => \E c \in Contexts : Stepped(c, "deliver")
       /\ op'.name = "esr_write" /\ op' # op =>
             /\ vlapic'.esr = vlapic.pending_esr
             /\ vlapic'.pending_esr = {}]_vars

\* the receive-illegal bit was raised, moved to the register by a write,
\* and raised again: the error vector 0x42 was injected twice
C11_Witness ==
    /\ AllIdle
    /\ vlapic.esr = {ESR_RECVILL_BIT}
    /\ vlapic.pending_esr = {ESR_RECVILL_BIT}
    /\ vlapic.asserts[66] = 2

----------------------------------------------------------------------------
(* Destination matching *)

\* icr & APIC_SHORT_MASK
APIC_DEST_NOSHORT == 0

APIC_DEST_SELF == 2^18

APIC_DEST_ALLINC == 2^19

APIC_DEST_ALLBUT == 2^18 + 2^19

\* APIC_DFR_FLAT 0xffffffff, APIC_DFR_CLUSTER 0x0fffffff
APIC_DFR_FLAT == AllOnes

APIC_DFR_CLUSTER == 0..27

\* GET_xAPIC_ID, GET_xAPIC_LOGICAL_ID, GET_xAPIC_DEST_FIELD: ((x) >> 24) & 0xff
GET_xAPIC_ID(x) == LowBits(ShiftRight(x, 24), 8)

\* _VLAPIC_ID(vlapic, id)
VLAPIC_ID_of(s, id) == IF vlapic_x2apic_mode(s) THEN id ELSE GET_xAPIC_ID(id)

\* VLAPIC_ID(vlapic)
VLAPIC_ID(s) == VLAPIC_ID_of(s, s.id)

\* case APIC_LDR, case APIC_DFR of vlapic_reg_write
reg_write_ldr(s, val) == [s EXCEPT !.ldr = val \cap (24..31)]

reg_write_dfr(s, val) == [s EXCEPT !.dfr = val \cup (0..27)]

\* a cluster comparison that forgets to mask the low nibble
match_cluster_unmasked(logical_id, mda) ==
    /\ ShiftRight(logical_id, 4) = ShiftRight(mda, 4)
    /\ logical_id \cap mda # {}

\* case APIC_DFR_CLUSTER of vlapic_match_logical_addr
match_cluster(logical_id, mda) ==
    /\ ShiftRight(logical_id, 4) = ShiftRight(mda, 4)
    /\ LowBits(logical_id \cap mda, 4) # {}

vlapic_match_logical_addr(s, mda) ==
    IF vlapic_x2apic_mode(s)
    THEN /\ ShiftRight(s.ldr, 16) = ShiftRight(mda, 16)
         /\ LowBits(s.ldr \cap mda, 16) # {}
    ELSE LET logical_id == GET_xAPIC_ID(s.ldr)
             mda8       == LowBits(mda, 8)
         IN  CASE s.dfr = APIC_DFR_FLAT    -> logical_id \cap mda8 # {}
               [] s.dfr = APIC_DFR_CLUSTER -> match_cluster(logical_id, mda8)
               [] OTHER                    -> FALSE

\* a physical match on the target's own ID alone
match_dest_without_broadcast(target, source, short_hand, dest, dest_mode) ==
    CASE short_hand = APIC_DEST_NOSHORT ->
             IF dest_mode
             THEN vlapic_match_logical_addr(target, dest)
             ELSE dest = VLAPIC_ID(target)
      [] short_hand = APIC_DEST_SELF   -> target.vcpu_id = source.vcpu_id
      [] short_hand = APIC_DEST_ALLINC -> TRUE
      [] short_hand = APIC_DEST_ALLBUT -> target.vcpu_id # source.vcpu_id
      [] OTHER -> FALSE

\* target == source compares the controllers by identity
vlapic_match_dest(target, source, short_hand, dest, dest_mode) ==
    CASE short_hand = APIC_DEST_NOSHORT ->
             IF dest_mode
             THEN vlapic_match_logical_addr(target, dest)
             ELSE \/ dest = VLAPIC_ID_of(target, AllOnes)
                  \/ dest = VLAPIC_ID(target)
      [] short_hand = APIC_DEST_SELF   -> target.vcpu_id = source.vcpu_id
      [] short_hand = APIC_DEST_ALLINC -> TRUE
      [] short_hand = APIC_DEST_ALLBUT -> target.vcpu_id # source.vcpu_id
      [] OTHER -> FALSE

----------------------------------------------------------------------------
(* SpecMatch: vlapic_match_dest over targets, sources, shorthands,         *)
(* destinations and destination modes                                      *)

\* vcpu 9 has APIC ID 18: its x2APIC logical ID has a nonzero cluster
MatchVcpus == {0, 1, 9}

\* logical IDs written to APIC_LDR: 0x01, 0x03, 0x12, 0x21, 0x80
LdrValues == { ShiftLeft(WordOf(n), 24) : n \in {1, 3, 18, 33, 128} }

\* values written to APIC_DFR: flat, cluster, and 0x50000000 (malformed)
DfrValues == { AllOnes, {}, {28, 30} }

\* destinations: 8-bit IDs and masks, the two broadcast IDs, x2APIC
\* logical IDs 0x10004 and 0x10001, 0x112 (bits above the low byte set)
DestValues ==
    { WordOf(n) : n \in {0, 1, 2, 3, 18, 19, 33, 34, 255, 274, 65537, 65540} }
        \cup {AllOnes}

ShortHands ==
    {APIC_DEST_NOSHORT, APIC_DEST_SELF, APIC_DEST_ALLINC, APIC_DEST_ALLBUT}

\* the controllers a guest can bring about: xAPIC mode with LDR and DFR
\* written, x2APIC mode with the ID and LDR derived from the vcpu index
MatchTargets ==
    { reg_write_dfr(reg_write_ldr(vlapic_init_vcpu(v), l), d) :
          v \in MatchVcpus, l \in LdrValues, d \in DfrValues }
    \cup
    { set_x2apic_id([reg_write_dfr(vlapic_init_vcpu(v), d)
                        EXCEPT !.apic_base_msr.extd = TRUE]) :
          v \in MatchVcpus, d \in DfrValues }

MatchDest ==
    /\ ret' = vlapic_match_dest(domain.target, domain.source, domain.short_hand,
                                domain.dest, domain.dest_mode)
    /\ op' = Op("match_dest", 0, 0)
    /\ UNCHANGED <<vlapic, hvm, ctx, domain>>

InitMatch ==
    /\ vlapic = vlapic_init
    /\ hvm = Platform(FALSE, FALSE, FALSE, FALSE, FALSE, 0)
    /\ ctx = [c \in Contexts |-> IdleCtx]
    /\ op = Op("init", 0, 0)
    /\ ret = FALSE
    /\ \E target \in MatchTargets, v \in MatchVcpus, sh \in ShortHands,
          dest \in DestValues, dest_mode \in BOOLEAN :
          domain = [target |-> target, source |-> vlapic_init_vcpu(v),
                    short_hand |-> sh, dest |-> dest, dest_mode |-> dest_mode]

NextMatch == MatchDest

SpecMatch == InitMatch /\ [][NextMatch]_vars

\* the number a register of at most 16 significant bits holds
RECURSIVE ValueOf(_)
ValueOf(x) ==
    IF x = {} THEN 0
    ELSE LET b == CHOOSE y \in x : TRUE IN 2^b + ValueOf(x \ {b})

\* two numbers below 2^16 have a set bit in common
ShareBit(m, n) == \E b \in 0..15 : Bit(m, 2^b) /\ Bit(n, 2^b)

\* the matching rule, on numbers: the target's IDs and the destination as
\* the fields the addressing mode defines
MatchReference ==
    LET tgt  == domain.target
        x2   == tgt.apic_base_msr.extd
        dest == domain.dest
        sh   == domain.short_hand
    IN  IF sh = APIC_DEST_SELF THEN tgt.vcpu_id = domain.source.vcpu_id
        ELSE IF sh = APIC_DEST_ALLINC THEN TRUE
        ELSE IF sh = APIC_DEST_ALLBUT THEN tgt.vcpu_id # domain.source.vcpu_id
        ELSE IF ~domain.dest_mode
        THEN IF x2 THEN dest = AllOnes \/ dest = WordOf(tgt.vcpu_id * 2)
             ELSE dest = WordOf(255) \/ dest = WordOf(tgt.vcpu_id * 2)
        ELSE IF x2
        THEN /\ ValueOf(ShiftRight(tgt.ldr, 16)) = ValueOf(ShiftRight(dest, 16))
             /\ ShareBit(ValueOf(LowBits(tgt.ldr, 16)), ValueOf(LowBits(dest, 16)))
        ELSE LET lid == ValueOf(ShiftRight(tgt.ldr, 24))
                 mda == ValueOf(LowBits(dest, 8))
             IN  IF tgt.dfr = AllOnes THEN ShareBit(lid, mda)
                 ELSE IF tgt.dfr = 0..27
                 THEN lid \div 16 = mda \div 16 /\ ShareBit(lid % 16, mda % 16)
                 ELSE FALSE

----------------------------------------------------------------------------
(* C17: destination matching is: self shorthand, iff the target is the     *)
(* source; all-including-self, always; all-excluding-self, iff the target  *)
(* is not the source; no shorthand and physical mode, iff the destination  *)
(* is the target's ID or the broadcast ID; no shorthand and logical mode,  *)
(* in extended addressing iff the high 16 bits are equal and the low 16    *)
(* share a bit, else in flat format iff logical ID and destination share a *)
(* bit, in cluster format iff the high nibbles are equal and the low       *)
(* nibbles share a bit, and never for any other format value.              *)

C17_MatchDest ==
    /\ vlapic_match_dest(domain.target, domain.source, domain.short_hand,
                         domain.dest, domain.dest_mode) = MatchReference
    /\ op.name = "match_dest" => ret = MatchReference

\* logical cluster mode: target 0x12 and destination 0x13 are of cluster 1
\* and share member bit 1
C17_Witness ==
    /\ op.name = "match_dest"
    /\ domain.short_hand = APIC_DEST_NOSHORT /\ domain.dest_mode
    /\ ~domain.target.apic_base_msr.extd
    /\ domain.target.dfr = APIC_DFR_CLUSTER
    /\ domain.target.ldr = ShiftLeft(WordOf(18), 24)
    /\ domain.dest = WordOf(19)
    /\ ret = TRUE

----------------------------------------------------------------------------
(* Lowest-priority arbitration.  A domain d holds its controllers,         *)
(* d.vcpu[i] that of vcpu i (d->vcpu[i], next_in_list in index order), and *)
(* d.round_robin_prev_vcpu.  A request rq is the (source, short_hand,      *)
(* dest, dest_mode) of a command.                                          *)

\* the number of virtual processors of the domain
NVcpus == 3

VcpuIds == 0..(NVcpus - 1)

\* UINT_MAX, as far as the integers of the model go; a processor priority
\* is below 256
UINT_MAX == 2147483647

Request(source, short_hand, dest, dest_mode) ==
    [source |-> source, short_hand |-> short_hand, dest |-> dest,
     dest_mode |-> dest_mode]

\* a comparison that lets a later controller of equal priority win
PprLe(ppr, target_ppr) == ppr <= target_ppr

\* (ppr = vlapic_get_ppr(vlapic)) < target_ppr
lowest_prio_better(ppr, target_ppr) == ppr < target_ppr

\* the do-while loop of vlapic_lowest_prio, entered with v the vcpu last
\* examined; acc is (target, target_ppr) and the vcpus examined so far
RECURSIVE lowest_prio_loop(_, _, _, _)
lowest_prio_loop(d, rq, v, acc) ==
    LET next   == IF v + 1 \in DOMAIN d.vcpu THEN v + 1 ELSE 0
        vlapic_v == d.vcpu[next]
        take   == /\ vlapic_match_dest(vlapic_v, d.vcpu[rq.source], rq.short_hand,
                                       rq.dest, rq.dest_mode)
                  /\ vlapic_enabled(vlapic_v)
                  /\ lowest_prio_better(vlapic_get_ppr(vlapic_v), acc.target_ppr)
        acc1   == [target     |-> IF take THEN next ELSE acc.target,
                   target_ppr |-> IF take THEN vlapic_get_ppr(vlapic_v)
                                  ELSE acc.target_ppr,
                   examined   |-> Append(acc.examined, next)]
    IN  IF next = d.round_robin_prev_vcpu THEN acc1
        ELSE lowest_prio_loop(d, rq, next, acc1)

\* vlapic_lowest_prio: the target (-1 for NULL), the domain after the call,
\* and the vcpus examined, in order
vlapic_lowest_prio(d, rq) ==
    LET old == d.round_robin_prev_vcpu
        r   == lowest_prio_loop(d, rq, old,
                   [target |-> -1, target_ppr |-> UINT_MAX, examined |-> <<>>])
    IN  [target   |-> r.target,
         examined |-> r.examined,
         d        |-> IF r.target # -1
                      THEN [d EXCEPT !.round_robin_prev_vcpu = r.target]
                      ELSE d]

----------------------------------------------------------------------------
(* SpecLowPrio: vlapic_lowest_prio over domains and requests *)

\* task priorities: two of class 2 and one of class 3
LowPrioTprs == {32, 37, 53}

\* a controller in flat logical mode with logical ID bit i set for vcpu i,
\* software-enabled or left disabled, with a task priority
LowPrioController(i, enable, tpr) ==
    LET s0 == reg_write_ldr(vlapic_init_vcpu(i), ShiftLeft(WordOf(2^i), 24))
        s1 == IF enable THEN reg_write_spiv(s0, APIC_SPIV_APIC_ENABLED + 255)
              ELSE s0
    IN  reg_write_taskpri(s1, tpr)

\* logical destinations (subsets of the vcpus' bits) and the shorthands
LowPrioRequests ==
    { Request(0, APIC_DEST_NOSHORT, WordOf(m), TRUE) : m \in 0..7 }
    \cup { Request(1, APIC_DEST_ALLBUT, {}, FALSE),
           Request(1, APIC_DEST_ALLINC, {}, FALSE) }

LowestPrio ==
    /\ LET r == vlapic_lowest_prio(domain.d, domain.rq)
       IN  /\ domain' = [domain EXCEPT !.d = r.d]
           /\ ret' = [target |-> r.target, examined |-> r.examined]
    /\ op' = Op("lowest_prio", 0, 0)
    /\ UNCHANGED <<vlapic, hvm, ctx>>

InitLowPrio ==
    /\ vlapic = vlapic_init
    /\ hvm = Platform(FALSE, FALSE, FALSE, FALSE, FALSE, 0)
    /\ ctx = [c \in Contexts |-> IdleCtx]
    /\ op = Op("init", 0, 0)
    /\ ret = [target |-> -1, examined |-> <<>>]
    /\ \E en \in [VcpuIds -> BOOLEAN], tpr \in [VcpuIds -> LowPrioTprs],
          old \in VcpuIds, rq \in LowPrioRequests :
          domain = [d  |-> [vcpu |-> [i \in VcpuIds |->
                                         LowPrioController(i, en[i], tpr[i])],
                            round_robin_prev_vcpu |-> old],
                    rq |-> rq]

NextLowPrio == LowestPrio

SpecLowPrio == InitLowPrio /\ [][NextLowPrio]_vars

\* the processor priority of a controller, by the rule of the manual
PprOf(s) ==
    LET isrv == IF s.isr = {} THEN 0 ELSE SetMax(s.isr)
    IN  IF HighNibble(s.taskpri) >= HighNibble(isrv)
        THEN s.taskpri ELSE HighNibble(isrv)

\* the controllers of d that qualify for rq
Qualifying(d, rq) ==
    { i \in DOMAIN d.vcpu :
        /\ vlapic_match_dest(d.vcpu[i], d.vcpu[rq.source], rq.short_hand,
                             rq.dest, rq.dest_mode)
        /\ d.vcpu[i].disabled = {} }

\* the place of vcpu i in the cyclic walk that starts just after old
WalkPlace(i, old, n) == ((i + n) - (old + 1)) % n

----------------------------------------------------------------------------
(* C14: lowest-priority arbitration returns, among the enabled controllers *)
(* matching the destination, one of minimal processor priority, and among  *)
(* those the first in the cyclic walk that starts just after the           *)
(* previously chosen index; it returns none when none qualifies, and it    *)
(* examines every virtual processor exactly once.                          *)

C14_LowestPrio ==
    [][op'.name = "lowest_prio" =>
          LET d    == domain.d
              rq   == domain.rq
              n    == Cardinality(DOMAIN d.vcpu)
              old  == d.round_robin_prev_vcpu
              q    == Qualifying(d, rq)
              t    == ret'.target
              ppr(i) == PprOf(d.vcpu[i])
          IN  /\ (q = {}) <=> (t = -1)
              /\ t # -1 =>
                    /\ t \in q
                    /\ \A i \in q : ppr(t) <= ppr(i)
                    /\ \A i \in q : ppr(i) = ppr(t) =>
                          WalkPlace(t, old, n) <= WalkPlace(i, old, n)
                    /\ domain'.d.round_robin_prev_vcpu = t
              /\ t = -1 => domain'.d = d
              /\ Len(ret'.examined) = n
              /\ \A i \in DOMAIN d.vcpu :
                    ret'.examined[WalkPlace(i, old, n) + 1] = i]_vars

\* two controllers at the minimal priority: the first after the previous
\* choice was returned, not the other
C14_Witness ==
    /\ op.name = "lowest_prio"
    /\ ret.target = 2
    /\ ret.examined[1] = 2
    /\ \E i \in {0, 1} :
          /\ i \in Qualifying(domain.d, domain.rq)
          /\ PprOf(domain.d.vcpu[i]) = PprOf(domain.d.vcpu[2])

----------------------------------------------------------------------------
(* The interrupt command register.  The low word is an integer, decoded by *)
(* field; the high word, a destination, is a set of bit positions.  A      *)
(* domain d also holds, per vcpu, pause_count and is_initialised, and the  *)
(* set of vcpus whose init_sipi tasklet is scheduled.                      *)

APIC_DM_FIXED == 0

APIC_DM_LOWEST == 256

APIC_DM_NMI == 1024

APIC_DM_INIT == 1280

APIC_DM_STARTUP == 1536

APIC_DEST_LOGICAL == 2048

APIC_ICR_BUSY == 4096

APIC_INT_ASSERT == 16384

APIC_INT_LEVELTRIG == 32768

\* icr_low & APIC_DM_MASK
icr_delivery_mode(icr_low) == ((icr_low \div 256) % 8) * 256

\* icr_low & APIC_SHORT_MASK
icr_short_hand(icr_low) == ((icr_low \div (2^18)) % 4) * (2^18)

\* icr_low & APIC_DEST_MASK, as a bool
icr_dest_mode(icr_low) == (icr_low \div APIC_DEST_LOGICAL) % 2 = 1

\* icr & (APIC_INT_LEVELTRIG | APIC_INT_ASSERT)
icr_level_assert(icr) == ((icr \div APIC_INT_ASSERT) % 4) * APIC_INT_ASSERT

\* val & ~(1 << 12)
icr_clear_busy(val) ==
    IF (val \div APIC_ICR_BUSY) % 2 = 1 THEN val - APIC_ICR_BUSY ELSE val

\* the scheduler's pause count of vcpu i: vcpu_pause, vcpu_pause_nosync
vcpu_pause(d, i) == [d EXCEPT !.pause_count[i] = @ + 1]

vcpu_unpause(d, i) == [d EXCEPT !.pause_count[i] = @ - 1]

\* scheduling a tasklet that is already scheduled changes nothing
tasklet_schedule(d, i) == [d EXCEPT !.tasklet = @ \cup {i}]

\* vlapic_accept_irq by the delivery mode of icr_low.  An NMI is latched in
\* the vcpu (nmi_pending, not part of this state) and leaves the controller
\* alone.
vlapic_accept_icr(s, icr_low) ==
    IF icr_delivery_mode(icr_low) \in {APIC_DM_FIXED, APIC_DM_LOWEST}
    THEN vlapic_accept_irq(s, VectorOf(icr_low))
    ELSE s

\* a delivery to every vcpu, matching or not
IpiTargetsAll(d, rq, i) == TRUE

\* a vector check that lets every vector pass
IpiVectorAny(icr_low) == TRUE

\* a transaction slot that never reads as occupied
InitSipiNeverBusy(s) == FALSE

\* vlapic_match_dest(vcpu_vlapic(v), vlapic, short_hand, dest, dest_mode)
ipi_target(d, rq, i) ==
    vlapic_match_dest(d.vcpu[i], d.vcpu[rq.source], rq.short_hand, rq.dest,
                      rq.dest_mode)

\* APIC_VECTOR_VALID(icr_low) in vlapic_ipi
ipi_vector_valid(icr_low) == APIC_VECTOR_VALID(icr_low)

\* vlapic->init_sipi.icr != 0
init_sipi_busy(s) == s.init_sipi.icr # 0

\* for_each_vcpu of vlapic_ipi, from vcpu i on
RECURSIVE ipi_for_each_vcpu(_, _, _, _)
ipi_for_each_vcpu(d, rq, icr_low, i) ==
    IF i \notin DOMAIN d.vcpu THEN d
    ELSE ipi_for_each_vcpu(
             IF ipi_target(d, rq, i)
             THEN [d EXCEPT !.vcpu[i] = vlapic_accept_icr(@, icr_low)]
             ELSE d,
             rq, icr_low, i + 1)

vlapic_ipi(d, source, icr_low, icr_high) ==
    LET s    == d.vcpu[source]
        rq   == Request(source, icr_short_hand(icr_low),
                        VLAPIC_ID_of(s, icr_high), icr_dest_mode(icr_low))
        mode == icr_delivery_mode(icr_low)
        sendill == [d EXCEPT !.vcpu[source] = vlapic_error(@, ESR_SENDILL_BIT)]
    IN  CASE mode \in {APIC_DM_INIT, APIC_DM_STARTUP} ->
               IF init_sipi_busy(s) THEN d
               ELSE tasklet_schedule(
                        [vcpu_pause(d, source) EXCEPT
                            !.vcpu[source].init_sipi =
                                [icr |-> icr_low, dest |-> rq.dest]],
                        source)
          [] mode = APIC_DM_LOWEST ->
               LET r == vlapic_lowest_prio(d, rq)
               IN  IF ~ipi_vector_valid(icr_low)
                   THEN [r.d EXCEPT !.vcpu[source] =
                                        vlapic_error(@, ESR_SENDILL_BIT)]
                   ELSE IF r.target # -1
                   THEN [r.d EXCEPT !.vcpu[r.target] =
                                        vlapic_accept_icr(@, icr_low)]
                   ELSE r.d
          [] mode = APIC_DM_FIXED /\ ~ipi_vector_valid(icr_low) -> sendill
          [] OTHER -> ipi_for_each_vcpu(d, rq, icr_low, 0)

\* vlapic_reg_write, APIC_ICR: the command is sent, then the register set
reg_write_icr(d, source, val) ==
    LET icr_low == icr_clear_busy(val)
        d1      == vlapic_ipi(d, source, icr_low, d.vcpu[source].icr2)
    IN  [d1 EXCEPT !.vcpu[source].icr = icr_low]

\* vlapic_reg_write, APIC_ICR2
reg_write_icr2(s, val) == [s EXCEPT !.icr2 = val \cap (24..31)]

\* the domain of controllers vcpu, nothing paused, vcpu 0 alone initialised
DomainOf(vcpu) ==
    [vcpu                  |-> vcpu,
     round_robin_prev_vcpu |-> 0,
     pause_count           |-> [i \in DOMAIN vcpu |-> 0],
     is_initialised        |-> [i \in DOMAIN vcpu |-> i = 0],
     tasklet               |-> {}]

----------------------------------------------------------------------------
(* SpecIpi: fixed, lowest-priority and NMI commands written by one vcpu of *)
(* a domain in flat logical mode                                           *)

\* the number of commands a behaviour sends
MaxIpis == 2

\* vcpu i has logical ID bit i; vcpu 2 also has bit 1, shared with vcpu 1.
\* The error entry of the local vector table is left masked or given
\* vector 53.
IpiController(i, enable, lvterr) ==
    LET s0 == reg_write_ldr(vlapic_init_vcpu(i),
                            ShiftLeft(WordOf(IF i = 2 THEN 6 ELSE 2^i), 24))
        s1 == IF enable THEN reg_write_spiv(s0, APIC_SPIV_APIC_ENABLED + 255)
              ELSE s0
    IN  IF lvterr THEN reg_write_lvterr(s1, 53) ELSE s1

\* destinations: logical bit 1 (also the physical ID of vcpu 1), logical
\* bits 0 and 1, and all ones
Icr2Values == { ShiftLeft(WordOf(m), 24) : m \in {2, 3, 255} }

IpiCommands ==
    { APIC_DM_FIXED + APIC_DEST_LOGICAL + 49,
      APIC_DM_FIXED + 66,
      APIC_DM_FIXED + APIC_DEST_LOGICAL + 5,
      APIC_DM_FIXED + APIC_DEST_ALLBUT + 66,
      APIC_DM_FIXED + APIC_DEST_SELF + APIC_ICR_BUSY + 49,
      APIC_DM_LOWEST + APIC_DEST_LOGICAL + 49,
      APIC_DM_LOWEST + APIC_DEST_LOGICAL + 5,
      APIC_DM_NMI + APIC_DEST_ALLINC }

Icr2Write ==
    /\ \E val \in Icr2Values :
          /\ domain' = [domain EXCEPT !.d.vcpu[domain.source] =
                                          reg_write_icr2(@, val)]
          /\ op' = Op("icr2_write", 0, 0)
    /\ UNCHANGED <<vlapic, hvm, ctx, ret>>

IcrWrite ==
    /\ domain.sent < MaxIpis
    /\ \E val \in IpiCommands :
          /\ domain' = [domain EXCEPT
                           !.d = reg_write_icr(@, domain.source, val),
                           !.sent = @ + 1]
          /\ op' = Op("icr_write", val, 0)
    /\ UNCHANGED <<vlapic, hvm, ctx, ret>>

InitIpi ==
    /\ vlapic = vlapic_init
    /\ hvm = Platform(FALSE, FALSE, FALSE, FALSE, FALSE, 0)
    /\ ctx = [c \in Contexts |-> IdleCtx]
    /\ op = Op("init", 0, 0)
    /\ ret = 0
    /\ \E en \in [VcpuIds -> BOOLEAN], lvterr \in BOOLEAN, source \in {0, 1} :
          domain = [d      |-> DomainOf([i \in VcpuIds |->
                                   IpiController(i, en[i], lvterr)]),
                    source |-> source,
                    sent   |-> 0]

NextIpi ==
    \/ Icr2Write
    \/ IcrWrite

SpecIpi == InitIpi /\ [][NextIpi]_vars

\* the request that the command icr_low of the source makes in domain d
RequestOf(d, source, icr_low) ==
    Request(source, icr_short_hand(icr_low),
            VLAPIC_ID_of(d.vcpu[source], d.vcpu[source].icr2),
            icr_dest_mode(icr_low))

\* controller i of d matches the request rq
Matches(d, rq, i) ==
    vlapic_match_dest(d.vcpu[i], d.vcpu[rq.source], rq.short_hand, rq.dest,
                      rq.dest_mode)

----------------------------------------------------------------------------
(* C15: a fixed or lowest-priority command with an illegal vector raises   *)
(* the send-illegal-vector error on the sender and is delivered to nobody: *)
(* no other controller changes, the command vector enters no in-request or *)
(* trigger-mode bitmap, and the sender's bitmaps change at most by the     *)
(* vector of its own error entry.                                          *)

C15_IllegalVectorIpi ==
    [][(/\ op'.name = "icr_write"
        /\ icr_delivery_mode(op'.arg) \in {APIC_DM_FIXED, APIC_DM_LOWEST}
        /\ VectorOf(op'.arg) < 16) =>
          LET d   == domain.d
              e   == domain'.d
              src == domain.source
          IN  /\ ESR_SENDILL_BIT \in e.vcpu[src].pending_esr
              /\ \A i \in DOMAIN d.vcpu :
                    /\ i # src => e.vcpu[i] = d.vcpu[i]
                    /\ VectorOf(op'.arg) \notin e.vcpu[i].irr \cup e.vcpu[i].tmr
              /\ e.vcpu[src].tmr = d.vcpu[src].tmr
              /\ e.vcpu[src].irr \subseteq
                     d.vcpu[src].irr \cup {VectorOf(d.vcpu[src].lvt[LVTERR])}
              /\ e.vcpu[src].irr # d.vcpu[src].irr =>
                    /\ ESR_SENDILL_BIT \notin d.vcpu[src].pending_esr
                    /\ ~Bit(d.vcpu[src].lvt[LVTERR], APIC_LVT_MASKED)
              /\ e.pause_count = d.pause_count
              /\ e.tasklet = d.tasklet]_vars

\* an illegal fixed command to a destination that enabled controllers
\* match, after which only the sender holds anything
C15_Witness ==
    /\ op.name = "icr_write"
    /\ op.arg = APIC_DM_FIXED + APIC_DEST_LOGICAL + 5
    /\ domain.sent = 1
    /\ domain.source = 0
    /\ domain.d.vcpu[0].icr2 = ShiftLeft(WordOf(3), 24)
    /\ domain.d.vcpu[0].pending_esr = {ESR_SENDILL_BIT}
    /\ domain.d.vcpu[0].irr = {53}
    /\ \A i \in {1, 2} : /\ vlapic_enabled(domain.d.vcpu[i])
                         /\ domain.d.vcpu[i].irr = {}

----------------------------------------------------------------------------
(* C16: a fixed command with a legal vector sets the vector's in-request   *)
(* bit in every enabled controller matching (shorthand, destination,       *)
(* destination mode) and changes the in-request bitmap of no controller    *)
(* that does not match.                                                    *)

C16_FixedIpi ==
    [][(/\ op'.name = "icr_write"
        /\ icr_delivery_mode(op'.arg) = APIC_DM_FIXED
        /\ VectorOf(op'.arg) >= 16) =>
          LET d  == domain.d
              e  == domain'.d
              rq == RequestOf(d, domain.source, op'.arg)
          IN  \A i \in DOMAIN d.vcpu :
                 /\ (Matches(d, rq, i) /\ d.vcpu[i].disabled = {}) =>
                       e.vcpu[i].irr = d.vcpu[i].irr \cup {VectorOf(op'.arg)}
                 /\ ~Matches(d, rq, i) => e.vcpu[i].irr = d.vcpu[i].irr]_vars

\* flat logical mode, destination bit 1: vcpu 1 and vcpu 2 share it and both
\* hold the vector, vcpu 0 does not
C16_Witness ==
    /\ op.name = "icr_write"
    /\ op.arg = APIC_DM_FIXED + APIC_DEST_LOGICAL + 49
    /\ domain.source = 0
    /\ domain.d.vcpu[0].icr2 = ShiftLeft(WordOf(2), 24)
    /\ domain.d.vcpu[0].dfr = APIC_DFR_FLAT
    /\ 49 \in domain.d.vcpu[1].irr
    /\ 49 \in domain.d.vcpu[2].irr
    /\ domain.d.vcpu[0].irr = {}

----------------------------------------------------------------------------
(* INIT and startup.  vlapic_ipi stashes the command in the source's       *)
(* init_sipi slot, pauses the source and schedules its tasklet;            *)
(* vlapic_init_sipi_action runs later in the tasklet's context, in steps   *)
(* that interleave with the writes of the vcpus and with the tasklets of   *)
(* other sources.                                                          *)

\* vcpu_reset, as far as this state goes
vcpu_reset(d, target) == [d EXCEPT !.is_initialised[target] = FALSE]

\* hvm_vcpu_reset_state, as far as this state goes
hvm_vcpu_reset_state(d, target) == [d EXCEPT !.is_initialised[target] = TRUE]

\* the switch of vlapic_init_sipi_one
init_sipi_one_switch(d, target, icr) ==
    CASE icr_delivery_mode(icr) = APIC_DM_INIT ->
           IF icr_level_assert(icr) = APIC_INT_LEVELTRIG THEN d
           ELSE IF ~d.is_initialised[target] THEN d
           ELSE [vcpu_reset(d, target) EXCEPT
                    !.vcpu[target] = vlapic_do_init(@)]
      [] icr_delivery_mode(icr) = APIC_DM_STARTUP ->
           hvm_vcpu_reset_state(d, target)

\* a target left paused after its state was handled
InitSipiOneNoResume(d, target, icr) == init_sipi_one_switch(d, target, icr)

\* vlapic_init_sipi_one after vcpu_pause(target): the switch, then
\* vcpu_unpause(target)
vlapic_init_sipi_one_rest(d, target, icr) ==
    vcpu_unpause(init_sipi_one_switch(d, target, icr), target)

\* the position of the tasklet of a source: pc, the vcpu v the walk is at,
\* and the locals icr and dest
SipiIdle == [pc |-> "idle", v |-> 0, icr |-> 0, dest |-> {}]

\* the tasklet starts: the locals are read; an empty slot ends it at once
init_sipi_action_enter(dm, origin) ==
    LET s == dm.d.vcpu[origin]
    IN  [dm EXCEPT !.d.tasklet = @ \ {origin},
                   !.action[origin] =
                       IF s.init_sipi.icr = 0 THEN SipiIdle
                       ELSE [pc |-> "loop", v |-> 0,
                             icr |-> s.init_sipi.icr,
                             dest |-> s.init_sipi.dest]]

\* for_each_vcpu: the next vcpu is matched and, if it matches, paused
init_sipi_action_loop(dm, origin) ==
    LET a == dm.action[origin]
    IN  IF a.v \notin DOMAIN dm.d.vcpu
        THEN [dm EXCEPT !.action[origin].pc = "finish"]
        ELSE IF vlapic_match_dest(dm.d.vcpu[a.v], dm.d.vcpu[origin],
                                  icr_short_hand(a.icr), a.dest,
                                  icr_dest_mode(a.icr))
        THEN [dm EXCEPT !.d = vcpu_pause(@, a.v),
                        !.action[origin].pc = "one"]
        ELSE [dm EXCEPT !.action[origin].v = @ + 1]

\* the paused target is handled and resumed
init_sipi_action_one(dm, origin) ==
    LET a == dm.action[origin]
    IN  [dm EXCEPT !.d = vlapic_init_sipi_one_rest(@, a.v, a.icr),
                   !.action[origin] = [a EXCEPT !.pc = "loop", !.v = @ + 1]]

\* the slot is cleared and the source resumed
init_sipi_action_finish(dm, origin) ==
    [dm EXCEPT !.d = vcpu_unpause(
                         [@ EXCEPT !.vcpu[origin].init_sipi.icr = 0], origin),
               !.action[origin] = SipiIdle]

----------------------------------------------------------------------------
(* SpecSipi: INIT and startup commands of two sources *)

\* the number of commands a behaviour sends
MaxSipis == 2

SipiSources == {0, 1}

\* physical destinations a source has written to APIC_ICR2: vcpu 1 and
\* vcpu 2
SipiIcr2Values == { ShiftLeft(WordOf(m), 24) : m \in {2, 4} }

\* INIT to the destination, INIT to all, the INIT level de-assert to all,
\* and startup at page 16 to the destination
SipiCommands ==
    { APIC_DM_INIT + APIC_INT_ASSERT,
      APIC_DM_INIT + APIC_INT_ASSERT + APIC_DEST_ALLINC,
      APIC_DM_INIT + APIC_INT_LEVELTRIG + APIC_DEST_ALLINC,
      APIC_DM_STARTUP + 16 }

\* a write of the command register; the source may still be running after
\* vcpu_pause_nosync, so a write is possible while its slot is occupied.
\* op.flag tells whether the slot was occupied.
SipiIcrWrite ==
    /\ domain.sent < MaxSipis
    /\ \E source \in SipiSources, val \in SipiCommands :
          /\ domain' = [domain EXCEPT !.d = reg_write_icr(@, source, val),
                                      !.sent = @ + 1]
          /\ op' = Op("sipi_write", source,
                      IF domain.d.vcpu[source].init_sipi.icr # 0
                      THEN 1 ELSE 0)
          /\ ret' = val
    /\ UNCHANGED <<vlapic, hvm, ctx>>

SipiEnter ==
    /\ \E origin \in domain.d.tasklet :
          /\ domain.action[origin].pc = "idle"
          /\ domain' = init_sipi_action_enter(domain, origin)
          /\ op' = Op("sipi_enter", origin, 0)
    /\ UNCHANGED <<vlapic, hvm, ctx, ret>>

SipiLoop ==
    /\ \E origin \in DOMAIN domain.action :
          /\ domain.action[origin].pc = "loop"
          /\ domain' = init_sipi_action_loop(domain, origin)
          /\ op' = Op("sipi_loop", origin, 0)
    /\ UNCHANGED <<vlapic, hvm, ctx, ret>>

SipiOne ==
    /\ \E origin \in DOMAIN domain.action :
          /\ domain.action[origin].pc = "one"
          /\ domain' = init_sipi_action_one(domain, origin)
          /\ op' = Op("sipi_one", origin, 0)
    /\ UNCHANGED <<vlapic, hvm, ctx, ret>>

SipiFinish ==
    /\ \E origin \in DOMAIN domain.action :
          /\ domain.action[origin].pc = "finish"
          /\ domain' = init_sipi_action_finish(domain, origin)
          /\ op' = Op("sipi_finish", origin, 0)
    /\ UNCHANGED <<vlapic, hvm, ctx, ret>>

InitSipi ==
    /\ vlapic = vlapic_init
    /\ hvm = Platform(FALSE, FALSE, FALSE, FALSE, FALSE, 0)
    /\ ctx = [c \in Contexts |-> IdleCtx]
    /\ op = Op("init", 0, 0)
    /\ ret = 0
    /\ \E icr2 \in [SipiSources -> SipiIcr2Values] :
          domain = [d      |-> DomainOf([i \in VcpuIds |->
                                   IF i \in SipiSources
                                   THEN reg_write_icr2(
                                            IpiController(i, TRUE, FALSE),
                                            icr2[i])
                                   ELSE IpiController(i, TRUE, FALSE)]),
                    action |-> [i \in VcpuIds |-> SipiIdle],
                    sent   |-> 0]

NextSipi ==
    \/ SipiIcrWrite
    \/ SipiEnter
    \/ SipiLoop
    \/ SipiOne
    \/ SipiFinish

SpecSipi == InitSipi /\ [][NextSipi]_vars

\* the pauses vcpu i is under: one while its own slot is occupied, one for
\* every tasklet that has paused it as a target and not yet resumed it
PausesDue(dm, i) ==
    (IF dm.d.vcpu[i].init_sipi.icr # 0 THEN 1 ELSE 0)
    + Cardinality({ o \in DOMAIN dm.action :
                      dm.action[o].pc = "one" /\ dm.action[o].v = i })

----------------------------------------------------------------------------
(* C12: while the transaction slot of a source is occupied, a further INIT *)
(* or startup command written by that source is dropped: the stashed       *)
(* (command, destination) pair stays, the source is not paused again and   *)
(* no second execution of the handler is scheduled.                        *)

C12_OneTransaction ==
    [][(op'.name = "sipi_write"
        /\ domain.d.vcpu[op'.arg].init_sipi.icr # 0) =>
          /\ domain'.d.vcpu[op'.arg].init_sipi =
                 domain.d.vcpu[op'.arg].init_sipi
          /\ domain'.d.pause_count = domain.d.pause_count
          /\ domain'.d.tasklet = domain.d.tasklet
          /\ domain'.action = domain.action
          /\ domain'.d = [domain.d EXCEPT !.vcpu[op'.arg].icr = ret']]_vars

\* a startup command written while an INIT is still stashed: the INIT
\* stays, the source is paused once
C12_Witness ==
    /\ op.name = "sipi_write"
    /\ op.flag = 1
    /\ ret = APIC_DM_STARTUP + 16
    /\ domain.d.vcpu[op.arg].init_sipi.icr = APIC_DM_INIT + APIC_INT_ASSERT
    /\ domain.d.pause_count[op.arg] = 1
    /\ domain.action[op.arg].pc = "loop"

----------------------------------------------------------------------------
(* C13: an accepted INIT or startup command pauses the source once, when   *)
(* it is written; the handler pauses each matching target once before      *)
(* handling it and resumes it once after, on every path, and resumes the   *)
(* source once, after the last vcpu and together with clearing the slot;   *)
(* so every pause count is the number of transactions the vcpu is held by, *)
(* and is back at its old value when they are over.                        *)

C13_PauseBalance ==
    [][LET d == domain.d
           e == domain'.d
           o == op'.arg
           a == domain.action[o]
       IN  /\ (op'.name = "sipi_write" /\ op'.flag = 0) =>
                 /\ e.pause_count = [d.pause_count EXCEPT ![o] = @ + 1]
                 /\ o \in e.tasklet
           /\ op'.name = "sipi_enter" =>
                 e.pause_count = d.pause_count
           /\ op'.name = "sipi_loop" =>
                 /\ e.vcpu = d.vcpu
                 /\ e.is_initialised = d.is_initialised
                 /\ \/ /\ domain'.action[o].pc = "one"
                       /\ e.pause_count = [d.pause_count EXCEPT ![a.v] = @ + 1]
                    \/ /\ domain'.action[o].pc # "one"
                       /\ e.pause_count = d.pause_count
           /\ op'.name = "sipi_one" =>
                 /\ d.pause_count[a.v] >= 1
                 /\ e.pause_count = [d.pause_count EXCEPT ![a.v] = @ - 1]
           /\ op'.name = "sipi_finish" =>
                 /\ a.v \notin DOMAIN d.vcpu
                 /\ e.pause_count = [d.pause_count EXCEPT ![o] = @ - 1]
                 /\ d.vcpu[o].init_sipi.icr # 0
                 /\ e.vcpu[o].init_sipi.icr = 0
           /\ \A i \in DOMAIN e.vcpu :
                 e.pause_count[i] = PausesDue(domain', i)]_vars

\* both sources have sent an INIT to all, and both transactions are over,
\* having reset the initialised vcpus: nothing is paused any more
C13_Witness ==
    /\ op.name = "sipi_finish"
    /\ domain.sent = 2
    /\ \A i \in DOMAIN domain.d.vcpu :
          /\ domain.d.pause_count[i] = 0
          /\ domain.d.vcpu[i].init_sipi.icr = 0
          /\ domain.action[i].pc = "idle"
    /\ ~domain.d.is_initialised[0]
    /\ ~vlapic_enabled(domain.d.vcpu[0])

----------------------------------------------------------------------------
(* The timer: current count, reprogramming, deadline, callbacks.  The      *)
(* operators take the guest time now.                                      *)

\* the time stamp counter runs at TscPerNs ticks per nanosecond of guest time
TscPerNs == 2

hvm_get_guest_tsc(now) == now * TscPerNs

gtsc_to_gtime(tsc) == tsc \div TscPerNs

\* a current count that never wraps
TmcctNeverWraps(s) == FALSE

\* a current count that runs whatever the time stamp
TmcctIgnoresStamp(s) == s.tmict # 0

\* vlapic_lvtt_period(vlapic) in vlapic_get_tmcct
tmcct_wraps(s) == vlapic_lvtt_period(s)

\* tmict && vlapic->timer_last_update
tmcct_counting(s) == s.tmict # 0 /\ s.timer_last_update # 0

\* delta && (is_oneshot || is_periodic)
update_timer_registers(delta, lvtt) ==
    /\ delta # 0
    /\ lvtt_mode(lvtt) \in {APIC_TIMER_MODE_ONESHOT, APIC_TIMER_MODE_PERIODIC}

vlapic_get_tmcct(s, now) ==
    LET counter_passed ==
            (now - s.timer_last_update)
                \div (APIC_BUS_CYCLE_NS * s.timer_divisor)
        passed == IF tmcct_wraps(s) THEN counter_passed % s.tmict
                  ELSE counter_passed
    IN  IF tmcct_counting(s)
        THEN IF passed < s.tmict THEN s.tmict - passed ELSE 0
        ELSE 0

\* vlapic_read_aligned, APIC_TMCCT
vlapic_read_tmcct(s, now) ==
    IF ~vlapic_lvtt_oneshot(s) /\ ~vlapic_lvtt_period(s) THEN 0
    ELSE vlapic_get_tmcct(s, now)

\* the callbacks of the registration
vlapic_pt_cb(s, now) == [s EXCEPT !.timer_last_update = now]

\* a deadline callback that leaves the deadline pending
TdtCbKeepsDeadline(s, now) == [s EXCEPT !.timer_last_update = now]

vlapic_tdt_pt_cb(s, now) ==
    [s EXCEPT !.timer_last_update = now, !.tdt_msr = 0]

vlapic_update_timer(s, now, lvtt, tmict_updated, old_divisor) ==
    LET is_periodic == lvtt_mode(lvtt) = APIC_TIMER_MODE_PERIODIC
        period      == s.tmict * APIC_BUS_CYCLE_NS * old_divisor
        elapsed     == now - s.timer_last_update
        time_passed == IF vlapic_lvtt_period(s) THEN elapsed % period
                       ELSE elapsed
        delta       == IF tmict_updated THEN period
                       ELSE IF period # 0 /\ s.timer_last_update # 0
                            THEN IF time_passed < period
                                 THEN period - time_passed ELSE 0
                            ELSE 0
        changed     == s.timer_divisor # old_divisor
        period1     == IF changed
                       THEN s.tmict * APIC_BUS_CYCLE_NS * s.timer_divisor
                       ELSE period
        delta1      == IF changed
                       THEN (delta * s.timer_divisor) \div old_divisor
                       ELSE delta
    IN  IF update_timer_registers(delta, lvtt)
        THEN [create_periodic_time(s, now, delta1,
                                   IF is_periodic THEN period1 ELSE 0,
                                   IF is_periodic THEN "pt_cb" ELSE "none")
                 EXCEPT !.timer_last_update =
                            IF tmict_updated THEN now
                            ELSE now - (period1 - delta1)]
        ELSE [destroy_periodic_time(s) EXCEPT !.timer_last_update = 0]

\* val & vlapic_lvt_mask[LVTT]
LvttMask(val) == LvtErrMask(val) + lvtt_mode(val)

\* vlapic_reg_write, APIC_LVTT
reg_write_lvtt(s, now, val) ==
    LET s1 == IF vlapic_lvtt_tdt(s)
                  # (lvtt_mode(val) = APIC_TIMER_MODE_TSC_DEADLINE)
              THEN [s EXCEPT !.tmict = 0, !.tdt_msr = 0]
              ELSE s
        s2 == [s1 EXCEPT !.pt_irq = VectorOf(val)]
        s3 == vlapic_update_timer(s2, now, val, FALSE, s2.timer_divisor)
        v1 == IF vlapic_sw_disabled(s3) /\ ~Bit(val, APIC_LVT_MASKED)
              THEN val + APIC_LVT_MASKED ELSE val
    IN  [s3 EXCEPT !.lvt[LVTT] = LvttMask(v1)]

\* vlapic_reg_write, APIC_TMICT
reg_write_tmict(s, now, val) ==
    IF ~vlapic_lvtt_oneshot(s) /\ ~vlapic_lvtt_period(s) THEN s
    ELSE vlapic_update_timer([s EXCEPT !.tmict = val], now, s.lvt[LVTT],
                             TRUE, s.timer_divisor)

\* vlapic_reg_write, APIC_TDCR
reg_write_tdcr(s, now, val) ==
    vlapic_update_timer(vlapic_set_tdcr(s, val), now, s.lvt[LVTT], FALSE,
                        s.timer_divisor)

vlapic_tdt_msr_set(s, now, value) ==
    LET guest_tsc == hvm_get_guest_tsc(now)
    IN  IF VLAPIC_HW_DISABLED \in s.disabled THEN s
        ELSE IF ~vlapic_lvtt_tdt(s) THEN s
        ELSE IF value > guest_tsc
        THEN [create_periodic_time([s EXCEPT !.tdt_msr = value], now,
                                   gtsc_to_gtime(value - guest_tsc), 0,
                                   "tdt_pt_cb")
                 EXCEPT !.timer_last_update = now]
        ELSE IF value > 0
        THEN [create_periodic_time([s EXCEPT !.tdt_msr = 0], now, 0, 0,
                                   "tdt_pt_cb")
                 EXCEPT !.timer_last_update = now]
        ELSE destroy_periodic_time([s EXCEPT !.tdt_msr = 0])

\* the periodic-timer subsystem fires the registration at its expiry: the
\* callback runs, a single shot ends the registration, a periodic one is
\* due again one period later
pt_timer_fired(s, now) ==
    LET s1 == CASE s.pt.cb = "pt_cb"     -> vlapic_pt_cb(s, now)
                [] s.pt.cb = "tdt_pt_cb" -> vlapic_tdt_pt_cb(s, now)
                [] OTHER                 -> s
    IN  [s1 EXCEPT !.pt = IF s.pt.period = 0 THEN NoTimer
                          ELSE [s.pt EXCEPT !.expires = @ + s.pt.period]]

----------------------------------------------------------------------------
(* SpecTimer: register writes, deadline writes, reads, resets and expiry   *)
(* of the timer of one controller, with guest time in domain.now           *)

\* guest time at the start, and the number of steps of StepNs it advances
StartTime == 1000

StepNs == 10

MaxSteps == 6

TmictValues == {0, 2, 3}

\* one-shot, periodic, deadline and the reserved mode, with vector 49
LvttValues == { m * (2^17) + 49 : m \in 0..3 }

\* divide by 2, by 4 and by 1
TdcrValues == {0, 1, 11}

\* no deadline, one in the past, one 30 ns after the start
TdtValues == {0, 500, (StartTime + 30) * TscPerNs}

\* since: the time and value of the last nonzero initial count written in
\* one-shot or periodic mode, while no other timer register has been
\* written after it
NoSince == [at |-> 0, n |-> 0]

\* torn: the last reprogramming by vlapic_update_timer destroyed the
\* registration, and no initial count has been written since
TornAfter(s, torn, updated) == IF updated THEN ~s.pt.active ELSE torn

TmictWrite ==
    /\ \E val \in TmictValues :
          /\ vlapic' = reg_write_tmict(vlapic, domain.now, val)
          /\ op' = Op("tmict_write", 0, 0)
          /\ domain' = [domain EXCEPT
                           !.since =
                               IF val # 0 /\ (vlapic_lvtt_oneshot(vlapic)
                                              \/ vlapic_lvtt_period(vlapic))
                               THEN [at |-> domain.now, n |-> val]
                               ELSE NoSince,
                           !.torn =
                               TornAfter(vlapic', @,
                                         vlapic_lvtt_oneshot(vlapic)
                                         \/ vlapic_lvtt_period(vlapic))]
    /\ ret' = 0
    /\ UNCHANGED <<hvm, ctx>>

LvttWrite ==
    /\ \E val \in LvttValues :
          /\ vlapic' = reg_write_lvtt(vlapic, domain.now, val)
          /\ op' = Op("lvtt_write", 0, 0)
    /\ domain' = [domain EXCEPT !.since = NoSince,
                                !.torn = TornAfter(vlapic', @, TRUE)]
    /\ ret' = 0
    /\ UNCHANGED <<hvm, ctx>>

TdcrWrite ==
    /\ \E val \in TdcrValues :
          /\ vlapic' = reg_write_tdcr(vlapic, domain.now, val)
          /\ op' = Op("tdcr_write", 0, 0)
    /\ domain' = [domain EXCEPT !.since = NoSince,
                                !.torn = TornAfter(vlapic', @, TRUE)]
    /\ ret' = 0
    /\ UNCHANGED <<hvm, ctx>>

TdtWrite ==
    /\ \E value \in TdtValues :
          /\ vlapic' = vlapic_tdt_msr_set(vlapic, domain.now, value)
          /\ op' = Op("tdt_write", 0, 0)
    /\ domain' = [domain EXCEPT !.since = NoSince]
    /\ ret' = 0
    /\ UNCHANGED <<hvm, ctx>>

TmcctRead ==
    /\ ret' = vlapic_read_tmcct(vlapic, domain.now)
    /\ op' = Op("tmcct_read", 0, 0)
    /\ UNCHANGED <<vlapic, hvm, ctx, domain>>

TimerReset ==
    /\ vlapic' = vlapic_do_init(vlapic)
    /\ op' = Op("timer_reset", 0, 0)
    /\ domain' = [domain EXCEPT !.since = NoSince]
    /\ ret' = 0
    /\ UNCHANGED <<hvm, ctx>>

\* the registration expires
TimerExpiry ==
    /\ vlapic.pt.active
    /\ vlapic.pt.expires <= domain.now
    /\ vlapic' = pt_timer_fired(vlapic, domain.now)
    /\ op' = Op("timer_expiry", 0, 0)
    /\ ret' = 0
    /\ UNCHANGED <<hvm, ctx, domain>>

\* guest time advances, up to the expiry of the registration at most
Advance ==
    /\ domain.now < StartTime + MaxSteps * StepNs
    /\ vlapic.pt.active => vlapic.pt.expires > domain.now
    /\ domain' = [domain EXCEPT !.now =
                     IF vlapic.pt.active /\ vlapic.pt.expires < @ + StepNs
                     THEN vlapic.pt.expires ELSE @ + StepNs]
    /\ op' = Op("advance", 0, 0)
    /\ ret' = 0
    /\ UNCHANGED <<vlapic, hvm, ctx>>

InitTimer ==
    /\ hvm = Platform(FALSE, FALSE, FALSE, FALSE, FALSE, 0)
    /\ vlapic = reg_write_spiv(vlapic_init, APIC_SPIV_APIC_ENABLED + 255)
    /\ ctx = [c \in Contexts |-> IdleCtx]
    /\ op = Op("init", 0, 0)
    /\ ret = 0
    /\ domain = [now |-> StartTime, since |-> NoSince, torn |-> FALSE]

NextTimer ==
    \/ TmictWrite
    \/ LvttWrite
    \/ TdcrWrite
    \/ TdtWrite
    \/ TmcctRead
    \/ TimerReset
    \/ TimerExpiry
    \/ Advance

SpecTimer == InitTimer /\ [][NextTimer]_vars

\* a countdown mode is selected and the initial count is not 0
Countdown(s) ==
    /\ vlapic_lvtt_oneshot(s) \/ vlapic_lvtt_period(s)
    /\ s.tmict # 0

\* what the current-count register reads for initial count n written ticks
\* ago, by the rule of the manual
TmcctReference(n, ticks, periodic) ==
    IF periodic THEN n - (ticks % n)
    ELSE IF ticks < n THEN n - ticks ELSE 0

----------------------------------------------------------------------------
(* C18: in every state reached by register writes, deadline writes, timer  *)
(* expiry and resets, a registration with the periodic-timer subsystem     *)
(* exists if and only if the timer is in one-shot or periodic mode with a  *)
(* nonzero initial count, or in deadline mode with a nonzero pending       *)
(* deadline.                                                               *)

C18_RegistrationIff ==
    vlapic.pt.active <=>
        \/ Countdown(vlapic)
        \/ vlapic_lvtt_tdt(vlapic) /\ vlapic.tdt_msr # 0

----------------------------------------------------------------------------
(* C19: once vlapic_update_timer has torn the registration down, the       *)
(* current-count register reads 0 until an initial count is written,       *)
(* whatever is written to the timer entry of the local vector table or to  *)
(* the divide configuration in between.                                    *)

C19_ZeroUntilRewritten ==
    domain.torn => vlapic_read_tmcct(vlapic, domain.now) = 0

\* periodic mode with initial count 3 in place, torn down, time has passed,
\* the divide configuration was written last, and a read would return 0
C19_Witness ==
    /\ domain.torn
    /\ op.name = "tdcr_write"
    /\ vlapic_lvtt_period(vlapic)
    /\ vlapic.tmict = 3
    /\ vlapic.timer_divisor = 1
    /\ domain.now >= StartTime + 4 * StepNs

----------------------------------------------------------------------------
(* C20: after initial count N > 0 is written in one-shot or periodic mode, *)
(* and until another timer register is written, the current count reads N  *)
(* less the whole (bus cycle x divisor) ticks elapsed: N at once, 0 in     *)
(* one-shot mode from the end of the period on, N - (ticks mod N) in       *)
(* periodic mode; 500 for N = 1000 after 2500 ticks.                       *)

C20_CurrentCount ==
    /\ domain.since.n # 0 =>
          LET n     == domain.since.n
              ticks == (domain.now - domain.since.at)
                           \div (APIC_BUS_CYCLE_NS * vlapic.timer_divisor)
              tmcct == vlapic_read_tmcct(vlapic, domain.now)
          IN  /\ tmcct = TmcctReference(n, ticks, vlapic_lvtt_period(vlapic))
              /\ ticks = 0 => (tmcct > 0 /\ tmcct <= n)
              /\ (vlapic_lvtt_oneshot(vlapic) /\ ticks >= n) => tmcct = 0
    /\ vlapic_get_tmcct(
           [vlapic EXCEPT !.lvt[LVTT] = APIC_TIMER_MODE_PERIODIC + 49,
                          !.tmict = 1000, !.timer_divisor = 1,
                          !.timer_last_update = StartTime],
           StartTime + 2500 * APIC_BUS_CYCLE_NS) = 500

\* periodic mode, initial count 3 written 5 ticks ago: the count has wrapped
\* once and a read returned 1
C20_Witness ==
    /\ op.name = "tmcct_read"
    /\ ret = 1
    /\ vlapic_lvtt_period(vlapic)
    /\ domain.since.n = 3
    /\ vlapic.timer_divisor = 1
    /\ domain.now = domain.since.at + 5 * APIC_BUS_CYCLE_NS

----------------------------------------------------------------------------
(* Lifecycle and mode: vlapic_reg_write as a whole, the x2APIC register    *)
(* surface (guest_wrmsr_x2apic), MSR_APIC_BASE, software INIT.  A written  *)
(* 64-bit value is the record of its low word lo, a number below 2^31, and *)
(* its high word hi.                                                       *)

Wrmsr(lo, hi) == [lo |-> lo, hi |-> hi]

\* LVT_MASK, LINT_MASK and the other masks of vlapic_lvt_mask, as the set
\* of the positions of their bits
LVT_MASK == (0..7) \cup {12, 16}

LINT_MASK == LVT_MASK \cup (8..10) \cup (13..15)

vlapic_lvt_mask ==
    [i \in 0..(VLAPIC_LVT_NUM - 1) |->
        CASE i = 0       -> LVT_MASK \cup {17, 18}
          [] i \in {1, 2} -> LVT_MASK \cup (8..10)
          [] i \in {3, 4} -> LINT_MASK
          [] OTHER        -> LVT_MASK]

\* the index of a local-vector-table register: (reg - APIC_LVTT) >> 4
LvtIndex(reg) ==
    CASE reg = "LVTT"    -> 0
      [] reg = "LVTTHMR" -> 1
      [] reg = "LVTPC"   -> 2
      [] reg = "LVT0"    -> 3
      [] reg = "LVT1"    -> 4
      [] reg = "LVTERR"  -> 5

\* the number whose set bits are at the positions bits
RECURSIVE NumberOf(_)
NumberOf(bits) ==
    IF bits = {} THEN 0
    ELSE LET b == CHOOSE x \in bits : TRUE
         IN  2^b + NumberOf(bits \ {b})

\* a local-vector-table write stored as written, whatever the enable state
LvtStoredAsWritten(s, i, val) ==
    [s EXCEPT !.lvt[i] = NumberOf(WordOf(val) \cap vlapic_lvt_mask[i])]

\* vlapic_reg_write, the local-vector-table registers other than LVTT and
\* LVTERR
reg_write_lvt(s, i, val) ==
    LET v1 == IF vlapic_sw_disabled(s) THEN WordOf(val) \cup {16}
              ELSE WordOf(val)
    IN  [s EXCEPT !.lvt[i] = NumberOf(v1 \cap vlapic_lvt_mask[i])]

\* vlapic_reg_write by vcpu v of domain d at guest time now: the staging
\* fields are cleared, then the register is written
vlapic_reg_write(d, v, now, reg, val) ==
    LET s      == [d.vcpu[v] EXCEPT !.loaded = NotLoaded]
        d0     == [d EXCEPT !.vcpu[v] = s]
        own(x) == [d0 EXCEPT !.vcpu[v] = x]
    IN  CASE reg = "ID"      -> own([s EXCEPT !.id = WordOf(val)])
          [] reg = "ESR"     -> own(reg_write_esr(s))
          [] reg = "TASKPRI" -> own(reg_write_taskpri(s, val))
          [] reg = "EOI"     -> own(vlapic_EOI_set(s))
          [] reg = "LDR"     -> own(reg_write_ldr(s, WordOf(val)))
          [] reg = "DFR"     -> own(reg_write_dfr(s, WordOf(val)))
          [] reg = "SPIV"    -> own(reg_write_spiv(s, val))
          [] reg = "ICR"     -> reg_write_icr(d0, v, val)
          [] reg = "ICR2"    -> own(reg_write_icr2(s, WordOf(val)))
          [] reg = "LVTT"    -> own(reg_write_lvtt(s, now, val))
          [] reg = "LVTERR"  -> own(reg_write_lvterr(s, val))
          [] reg \in {"LVTTHMR", "LVTPC", "LVT0", "LVT1"} ->
                 own(reg_write_lvt(s, LvtIndex(reg), val))
          [] reg = "TMICT"   -> own(reg_write_tmict(s, now, val))
          [] reg = "TDCR"    -> own(reg_write_tdcr(s, now, val))
          [] OTHER           -> d0

\* val & ~mask, for the 64-bit val
x2apic_bits_outside(val, mask) ==
    val.hi # 0 \/ ~(WordOf(val.lo) \subseteq mask)

\* the register checks of guest_wrmsr_x2apic: whether the write of val to
\* reg is refused
x2apic_reserved(reg, val) ==
    CASE reg = "TASKPRI" -> x2apic_bits_outside(val, 0..7)
      [] reg = "SPIV"    -> x2apic_bits_outside(val, 0..9)
      [] reg = "LVTT"    -> x2apic_bits_outside(val, LVT_MASK \cup {17, 18})
      [] reg \in {"LVTTHMR", "LVTPC", "CMCI"} ->
             x2apic_bits_outside(val, LVT_MASK \cup (8..10))
      [] reg \in {"LVT0", "LVT1"} -> x2apic_bits_outside(val, LINT_MASK)
      [] reg = "LVTERR"  -> x2apic_bits_outside(val, LVT_MASK)
      [] reg = "TMICT"   -> FALSE
      [] reg = "TDCR"    -> x2apic_bits_outside(val, {0, 1, 3})
      [] reg = "ICR"     ->
             ~(WordOf(val.lo) \subseteq
                   ((0..7) \cup (8..10) \cup {11, 14, 15, 18, 19}))
      [] reg = "SELF_IPI" -> x2apic_bits_outside(val, 0..7)
      [] reg \in {"EOI", "ESR"} -> val.lo # 0 \/ val.hi # 0
      [] OTHER           -> TRUE

\* a surface that stores the high word in ICR2 before it checks the low
X2apicRefusedAfterIcr2(d, v, val) ==
    [d EXCEPT !.vcpu[v].icr2 = WordOf(val.hi)]

\* the domain when guest_wrmsr_x2apic returns X86EMUL_EXCEPTION: every
\* check precedes the first vlapic_set_reg
x2apic_refused(d, v, val) == d

\* guest_wrmsr_x2apic by vcpu v: ret 0 is X86EMUL_OKAY, 1 is
\* X86EMUL_EXCEPTION
guest_wrmsr_x2apic(d, v, now, reg, val) ==
    IF ~vlapic_x2apic_mode(d.vcpu[v]) THEN [ret |-> 1, d |-> d]
    ELSE IF x2apic_reserved(reg, val)
    THEN [ret |-> 1, d |-> x2apic_refused(d, v, val)]
    ELSE LET d1 == IF reg = "ICR"
                   THEN [d EXCEPT !.vcpu[v].icr2 = WordOf(val.hi)]
                   ELSE d
             r1 == IF reg = "SELF_IPI" THEN "ICR" ELSE reg
             v1 == IF reg = "SELF_IPI"
                   THEN APIC_DEST_SELF + VectorOf(val.lo)
                   ELSE val.lo
         IN  [ret |-> 0, d |-> vlapic_reg_write(d1, v, now, r1, v1)]

\* vlapic_range: the MMIO window is decoded
vlapic_range(s) == VLAPIC_HW_DISABLED \notin s.disabled /\ ~vlapic_x2apic_mode(s)

\* vlapic_mmio_write of an aligned 32-bit value
vlapic_mmio_write(d, v, now, reg, val) ==
    IF vlapic_range(d.vcpu[v]) THEN vlapic_reg_write(d, v, now, reg, val)
    ELSE d

----------------------------------------------------------------------------
(* Save and restore.  The 'hidden' record (LAPIC) holds the hw part of the *)
(* controller, the 'regs' record (LAPIC_REGS) its register page.  An entry *)
(* of the stream h names its instance (the vcpu) and is present with its   *)
(* whole data, or missing or short.                                        *)

\* -EINVAL and -ENODATA
EINVAL == 22

ENODATA == 61

HvmEntry(instance, present, data) ==
    [instance |-> instance, present |-> present, data |-> data]

\* vlapic->hw
HwOf(s) ==
    [apic_base_msr |-> s.apic_base_msr, disabled |-> s.disabled,
     timer_divisor |-> s.timer_divisor, tdt_msr |-> s.tdt_msr,
     pending_esr |-> s.pending_esr]

\* vlapic->regs
RegsOf(s) ==
    [id |-> s.id, ldr |-> s.ldr, dfr |-> s.dfr, icr |-> s.icr,
     icr2 |-> s.icr2, irr |-> s.irr, isr |-> s.isr, tmr |-> s.tmr,
     taskpri |-> s.taskpri, procpri |-> s.procpri, lvt |-> s.lvt,
     spiv |-> s.spiv, esr |-> s.esr, tmict |-> s.tmict, tdcr |-> s.tdcr]

\* lapic_save_hidden, lapic_save_regs of vcpu v
lapic_save_hidden(d, v) == HvmEntry(v, TRUE, HwOf(d.vcpu[v]))

lapic_save_regs(d, v) ==
    HvmEntry(v, TRUE, RegsOf(hvm_sync_pir_to_irr(d.vcpu[v])))

\* hvm_load_entry_zeroextend(LAPIC, h, &s->hw)
hvm_load_hw(s, hw) ==
    [s EXCEPT !.apic_base_msr = hw.apic_base_msr, !.disabled = hw.disabled,
              !.timer_divisor = hw.timer_divisor, !.tdt_msr = hw.tdt_msr,
              !.pending_esr = hw.pending_esr]

\* hvm_load_entry(LAPIC_REGS, h, s->regs)
hvm_load_regs(s, regs) ==
    [s EXCEPT !.id = regs.id, !.ldr = regs.ldr, !.dfr = regs.dfr,
              !.icr = regs.icr, !.icr2 = regs.icr2, !.irr = regs.irr,
              !.isr = regs.isr, !.tmr = regs.tmr, !.taskpri = regs.taskpri,
              !.procpri = regs.procpri, !.lvt = regs.lvt, !.spiv = regs.spiv,
              !.esr = regs.esr, !.tmict = regs.tmict, !.tdcr = regs.tdcr]

vlapic_tdt_msr_get(s) == IF ~vlapic_lvtt_tdt(s) THEN 0 ELSE s.tdt_msr

\* lapic_rearm: the timer is registered again after the registers are loaded
lapic_rearm(s, now) ==
    LET s1          == [s EXCEPT !.pt_irq = VectorOf(s.lvt[LVTT])]
        period      == APIC_BUS_CYCLE_NS * s1.tmict * s1.timer_divisor
        is_periodic == vlapic_lvtt_period(s1)
    IN  IF vlapic_lvtt_tdt(s1)
        THEN IF vlapic_tdt_msr_get(s1) # 0
             THEN vlapic_tdt_msr_set(s1, now, vlapic_tdt_msr_get(s1))
             ELSE s1
        ELSE IF s1.tmict = 0 THEN s1
        ELSE [create_periodic_time(s1, now, period,
                                   IF is_periodic THEN period ELSE 0,
                                   IF is_periodic THEN "pt_cb" ELSE "none")
                 EXCEPT !.timer_last_update = now]

\* lapic_load_fixup of vcpu v; bug_x2apic_ldr_vcpu_id is a flag of the domain
lapic_load_fixup(d, v) ==
    LET s        == d.vcpu[v]
        good_ldr == x2apic_ldr_from_id(s.loaded.id)
    IN  IF ~vlapic_x2apic_mode(s) \/ s.loaded.ldr = good_ldr THEN d
        ELSE IF s.loaded.ldr = WordOf(1)
        THEN [d EXCEPT !.vcpu[v] = set_x2apic_id(s)]
        ELSE IF s.loaded.ldr = x2apic_ldr_from_id(WordOf(s.vcpu_id))
        THEN [d EXCEPT !.vcpu = [i \in DOMAIN @ |->
                         [@[i] EXCEPT !.bug_x2apic_ldr_vcpu_id = TRUE]]]
        ELSE d

\* a check that reports an absent vcpu as it reports a missing record
CheckCommonNoData(d, vcpuid) ==
    IF vcpuid \notin DOMAIN d.vcpu THEN -ENODATA ELSE 0

\* lapic_check_common, of a domain that has local APICs
lapic_check_common(d, vcpuid) ==
    IF vcpuid \notin DOMAIN d.vcpu THEN -EINVAL ELSE 0

\* a check that lets every addressing combination pass
CheckHiddenAnyMode(hw) == FALSE

\* EN=0 with EXTD=1 is illegal
check_hidden_illegal_mode(hw) ==
    hw.apic_base_msr.extd /\ ~hw.apic_base_msr.enable

lapic_check_hidden(d, h) ==
    LET rc == lapic_check_common(d, h.instance)
    IN  IF rc # 0 THEN rc
        ELSE IF ~h.present THEN -ENODATA
        ELSE IF check_hidden_illegal_mode(h.data) THEN -EINVAL
        ELSE 0

lapic_check_regs(d, h) ==
    LET rc == lapic_check_common(d, h.instance)
    IN  IF rc # 0 THEN rc
        ELSE IF ~h.present THEN -ENODATA
        ELSE 0

\* a first load that runs the fixup pass
LoadAlwaysFixes(loaded_other) == TRUE

\* s->loaded.regs in lapic_load_hidden, s->loaded.hw in lapic_load_regs
load_runs_fixup(loaded_other) == loaded_other

\* lapic_load_hidden, lapic_load_regs: ret, the domain after the call and
\* whether lapic_load_fixup ran
lapic_load_hidden(d, h) ==
    LET v  == h.instance
        d1 == [d EXCEPT !.vcpu[v] =
                   [hvm_load_hw(@, h.data) EXCEPT !.loaded.hw = TRUE]]
    IN  IF ~h.present THEN [ret |-> -EINVAL, d |-> d, fixup |-> FALSE]
        ELSE IF load_runs_fixup(d1.vcpu[v].loaded.regs)
        THEN [ret |-> 0, d |-> lapic_load_fixup(d1, v), fixup |-> TRUE]
        ELSE [ret |-> 0, d |-> d1, fixup |-> FALSE]

lapic_load_regs(d, h, now) ==
    LET v  == h.instance
        s1 == hvm_load_regs(d.vcpu[v], h.data)
        d1 == [d EXCEPT !.vcpu[v] =
                   [s1 EXCEPT !.loaded.id = s1.id, !.loaded.ldr = s1.ldr,
                              !.loaded.regs = TRUE]]
        fx == load_runs_fixup(d1.vcpu[v].loaded.hw)
        d2 == IF fx THEN lapic_load_fixup(d1, v) ELSE d1
    IN  [ret   |-> 0,
         d     |-> [d2 EXCEPT !.vcpu[v] = lapic_rearm(@, now)],
         fixup |-> fx]

----------------------------------------------------------------------------
(* SpecMode: vcpu 1 of a two-vcpu domain writes its registers through the  *)
(* MMIO window and the x2APIC surface, writes MSR_APIC_BASE, is asserted   *)
(* interrupts and receives INIT; vcpu 0 stays as created.  The domain's    *)
(* policy has x2APIC or not, and the domain has bug_x2apic_ldr_vcpu_id     *)
(* latched (by an earlier restore) or not.                                 *)

ModeBaseValues ==
    { ApicBase(APIC_DEFAULT_PHYS_BASE, TRUE, FALSE, FALSE, FALSE),
      ApicBase(APIC_DEFAULT_PHYS_BASE, FALSE, FALSE, FALSE, FALSE),
      ApicBase(APIC_DEFAULT_PHYS_BASE, TRUE, TRUE, FALSE, FALSE),
      ApicBase(APIC_DEFAULT_PHYS_BASE, FALSE, TRUE, FALSE, FALSE),
      ApicBase(APIC_DEFAULT_PHYS_BASE + 1, TRUE, FALSE, FALSE, FALSE),
      ApicBase(APIC_DEFAULT_PHYS_BASE, TRUE, FALSE, FALSE, TRUE) }

\* (register, value) pairs written through the x2APIC surface
ModeX2apicWrites ==
    { <<"TASKPRI", Wrmsr(32, 0)>>, <<"TASKPRI", Wrmsr(256 + 32, 0)>>,
      <<"TASKPRI", Wrmsr(32, 1)>>,
      <<"SPIV", Wrmsr(APIC_SPIV_APIC_ENABLED + 255, 0)>>,
      <<"SPIV", Wrmsr(1024 + APIC_SPIV_APIC_ENABLED + 255, 0)>>,
      <<"LVTT", Wrmsr(49, 0)>>, <<"LVTT", Wrmsr(2^19 + 49, 0)>>,
      <<"LVTPC", Wrmsr(2^15 + 50, 0)>>,
      <<"LVT0", Wrmsr(2^17 + 50, 0)>>,
      <<"LVTERR", Wrmsr(256 + 53, 0)>>,
      <<"TMICT", Wrmsr(3, 0)>>,
      <<"TDCR", Wrmsr(4, 0)>>,
      <<"ICR", Wrmsr(APIC_DEST_SELF + 49, 1)>>,
      <<"ICR", Wrmsr(APIC_DEST_SELF + APIC_ICR_BUSY + 49, 1)>>,
      <<"SELF_IPI", Wrmsr(49, 0)>>, <<"SELF_IPI", Wrmsr(256 + 49, 0)>>,
      <<"EOI", Wrmsr(0, 0)>>, <<"EOI", Wrmsr(1, 0)>>,
      <<"ESR", Wrmsr(1, 0)>>,
      <<"ID", Wrmsr(6, 0)>>, <<"LDR", Wrmsr(2, 0)>> }

\* (register, value) pairs written through the MMIO window
ModeMmioWrites ==
    { <<"LDR", 2^25>>, <<"ICR2", 2^24>>, <<"TASKPRI", 32>>,
      <<"SPIV", APIC_SPIV_APIC_ENABLED + 255>>,
      <<"LVTT", 49>>, <<"TMICT", 3>>,
      <<"ICR", APIC_DEST_SELF + 49>>, <<"EOI", 0>> }

\* wakes, asserts and notified observe the paths of other specifications;
\* here they are kept at their initial values
ModeObserved(d) ==
    [d EXCEPT !.vcpu = [i \in DOMAIN @ |->
                           [@[i] EXCEPT !.wakes = [v \in DOMAIN @ |-> 0],
                                        !.asserts = [v \in DOMAIN @ |-> 0],
                                        !.notified = {}]]]

ModeSelf == domain.d.vcpu[1]

\* what a reset has to clear, found set before an operation
ModeDirty(s) ==
    /\ s.irr # {} /\ s.isr # {} /\ s.tmr # {}
    /\ s.icr # 0 /\ s.icr2 # {} /\ s.taskpri # 0 /\ s.tmict # 0
    /\ \E i \in DOMAIN s.lvt : ~Bit(s.lvt[i], APIC_LVT_MASKED)
    /\ s.spiv # 255
    /\ VLAPIC_SW_DISABLED \notin s.disabled
    /\ s.pt.active

ModeApicBaseWrite ==
    /\ \E val \in ModeBaseValues :
          LET r == guest_wrmsr_apic_base(ModeSelf, val)
          IN  /\ domain' = [domain EXCEPT !.d.vcpu[1] = r.s]
              /\ ret' = r.ret
              /\ op' = Op("wrmsr_apic_base",
                          IF ~ModeSelf.apic_base_msr.enable /\ val.enable
                          THEN 1 ELSE 0,
                          IF ModeDirty(ModeSelf) THEN 1 ELSE 0)
    /\ UNCHANGED <<vlapic, hvm, ctx>>

ModeX2apicWrite ==
    /\ \E w \in ModeX2apicWrites :
          LET r == guest_wrmsr_x2apic(domain.d, 1, domain.now, w[1], w[2])
          IN  /\ domain' = [domain EXCEPT !.d = r.d]
              /\ ret' = r.ret
    /\ op' = Op("wrmsr_x2apic", 0, 0)
    /\ UNCHANGED <<vlapic, hvm, ctx>>

ModeMmioWrite ==
    /\ vlapic_range(ModeSelf)
    /\ \E w \in ModeMmioWrites :
          domain' = [domain EXCEPT
                        !.d = ModeObserved(vlapic_mmio_write(@, 1, domain.now,
                                                             w[1], w[2]))]
    /\ op' = Op("mmio_write", 0, 0)
    /\ ret' = 0
    /\ UNCHANGED <<vlapic, hvm, ctx>>

\* a level assert of vector 0x31 by a device
ModeSetIrq ==
    /\ domain' = [domain EXCEPT
                     !.d = ModeObserved([@ EXCEPT !.vcpu[1] =
                                            vlapic_set_irq(@, 49, 1)])]
    /\ op' = Op("set_irq", 0, 0)
    /\ ret' = 0
    /\ UNCHANGED <<vlapic, hvm, ctx>>

\* the vcpu takes the interrupt the query returns
ModeAck ==
    /\ LET q == vlapic_has_pending_irq(ModeSelf, 0, FALSE)
       IN  /\ q.ret # -1
           /\ domain' = [domain EXCEPT !.d.vcpu[1] =
                            vlapic_ack_pending_irq(q.s, q.ret, FALSE, FALSE).s]
    /\ op' = Op("ack", 0, 0)
    /\ ret' = 0
    /\ UNCHANGED <<vlapic, hvm, ctx>>

\* INIT handled for the vcpu: vlapic_do_init of vlapic_init_sipi_one
ModeInitSignal ==
    /\ domain' = [domain EXCEPT !.d.vcpu[1] = vlapic_do_init(@)]
    /\ op' = Op("init_signal", IF ModeSelf.ldr # {} THEN 1 ELSE 0,
                IF ModeDirty(ModeSelf) THEN 1 ELSE 0)
    /\ ret' = 0
    /\ UNCHANGED <<vlapic, hvm, ctx>>

\* the domain d after vcpu v is restored from the records saved of it
ModeRestored(d, v, now) ==
    lapic_load_regs(lapic_load_hidden(d, lapic_save_hidden(d, v)).d,
                    lapic_save_regs(d, v), now).d

\* policy without x2APIC; with x2APIC; with x2APIC and the compatibility
\* flag latched; with x2APIC, vcpu 1 saved in extended addressing and
\* restored
InitMode ==
    /\ vlapic = vlapic_init
    /\ hvm = Platform(FALSE, FALSE, FALSE, FALSE, FALSE, 0)
    /\ ctx = [c \in Contexts |-> IdleCtx]
    /\ op = Op("init", 0, 0)
    /\ ret = 0
    /\ \E c \in { <<FALSE, FALSE, FALSE>>, <<TRUE, FALSE, FALSE>>,
                   <<TRUE, TRUE, FALSE>>, <<TRUE, FALSE, TRUE>> } :
          \E d0 \in { DomainOf([i \in 0..1 |->
                          [vlapic_init_vcpu(i) EXCEPT
                              !.x2apic = c[1],
                              !.bug_x2apic_ldr_vcpu_id = c[2]]]) } :
          \E d1 \in { [d0 EXCEPT !.vcpu[1] =
                          guest_wrmsr_apic_base(@,
                              ApicBase(APIC_DEFAULT_PHYS_BASE, TRUE, TRUE,
                                       FALSE, FALSE)).s] } :
              domain = [d   |-> IF c[3] THEN ModeRestored(d1, 1, StartTime)
                                ELSE d0,
                        now |-> StartTime]

NextMode ==
    \/ ModeApicBaseWrite
    \/ ModeX2apicWrite
    \/ ModeMmioWrite
    \/ ModeSetIrq
    \/ ModeAck
    \/ ModeInitSignal

SpecMode == InitMode /\ [][NextMode]_vars

\* the state vlapic_do_init leaves
AfterReset(s) ==
    /\ s.irr = {} /\ s.isr = {} /\ s.tmr = {}
    /\ s.icr = 0 /\ s.icr2 = {}
    /\ s.taskpri = 0
    /\ s.tmict = 0
    /\ \A i \in 0..(VLAPIC_LVT_NUM - 1) : s.lvt[i] = APIC_LVT_MASKED
    /\ s.spiv = 255
    /\ VLAPIC_SW_DISABLED \in s.disabled
    /\ ~s.pt.active

(* C21: after a power-on reset (vlapic_reset, run when the controller is   *)
(* hardware-enabled again) or a software INIT (vlapic_do_init), the        *)
(* in-request, in-service and trigger-mode bitmaps are empty, the command  *)
(* register pair, the task priority and the initial count are 0, every     *)
(* entry of the local vector table is masked and otherwise 0, the          *)
(* spurious-vector register is 0xFF, the software-disabled flag is set and *)
(* there is no timer registration.                                         *)

C21_ResetState ==
    [][ (\/ op'.name = "init_signal"
         \/ (op'.name = "wrmsr_apic_base" /\ ret' = 0 /\ op'.arg = 1))
        => AfterReset(ModeSelf') ]_vars

\* an INIT that found every one of these set
C21_Witness ==
    /\ op.name = "init_signal"
    /\ op.flag = 1
    /\ AfterReset(ModeSelf)

\* a power-on reset that found every one of these set
C21_WitnessReset ==
    /\ op.name = "wrmsr_apic_base"
    /\ ret = 0
    /\ op.arg = 1
    /\ op.flag = 1
    /\ AfterReset(ModeSelf)

(* C22: a software INIT of a controller in extended addressing leaves its  *)
(* ID, its logical destination register and MSR_APIC_BASE as they were, so *)
(* a logical destination that was the one derived from the ID still is     *)
(* (and it always is when the domain's compatibility flag is clear); a     *)
(* software INIT in standard addressing sets the logical destination       *)
(* register to 0.                                                          *)

C22_InitKeepsX2apicLdr ==
    [][ op'.name = "init_signal" =>
          IF vlapic_x2apic_mode(ModeSelf)
          THEN /\ ModeSelf'.id = ModeSelf.id
               /\ ModeSelf'.ldr = ModeSelf.ldr
               /\ ModeSelf'.apic_base_msr = ModeSelf.apic_base_msr
               /\ ModeSelf.ldr = x2apic_ldr_from_id(ModeSelf.id)
                     => ModeSelf'.ldr = x2apic_ldr_from_id(ModeSelf'.id)
               /\ ~ModeSelf.bug_x2apic_ldr_vcpu_id
                     => ModeSelf'.ldr = x2apic_ldr_from_id(ModeSelf'.id)
          ELSE /\ ModeSelf'.ldr = {}
               /\ ModeSelf'.id = ModeSelf.id
               /\ ModeSelf'.apic_base_msr = ModeSelf.apic_base_msr ]_vars

\* an INIT in extended addressing that found the registers set: ID 2 and
\* the logical destination 1 << 2 derived from it are still there
C22_Witness ==
    /\ op.name = "init_signal"
    /\ op.flag = 1
    /\ vlapic_x2apic_mode(ModeSelf)
    /\ ModeSelf.id = WordOf(2)
    /\ ModeSelf.ldr = {2}
    /\ ModeSelf.ldr = x2apic_ldr_from_id(ModeSelf.id)

\* an INIT in standard addressing that found a logical destination set
C22_WitnessStandard ==
    /\ op.name = "init_signal"
    /\ op.arg = 1
    /\ ~vlapic_x2apic_mode(ModeSelf)
    /\ ModeSelf.ldr = {}

(* C23: a write through the x2APIC register surface, or of MSR_APIC_BASE,  *)
(* that returns a fault to the guest leaves the controller as it was:      *)
(* registers, disabled flags, MSR_APIC_BASE, timer registration and the    *)
(* staging fields of the restore (and the other vcpu of the domain).       *)

C23_FaultChangesNothing ==
    [][ (op'.name \in {"wrmsr_x2apic", "wrmsr_apic_base"} /\ ret' = 1)
        => domain'.d = domain.d ]_vars

\* a refused write in extended addressing, with the bitmaps and registers
\* set and the timer registered
C23_Witness ==
    /\ op.name = "wrmsr_x2apic"
    /\ ret = 1
    /\ vlapic_x2apic_mode(ModeSelf)
    /\ ModeDirty(ModeSelf)

\* a refused write in extended addressing just after a restore, the staging
\* fields still set
C23_WitnessLoaded ==
    /\ op.name = "wrmsr_x2apic"
    /\ ret = 1
    /\ vlapic_x2apic_mode(ModeSelf)
    /\ ModeSelf.loaded.hw /\ ModeSelf.loaded.regs
    /\ ModeSelf.loaded.ldr = {2}

\* a refused write of MSR_APIC_BASE in extended addressing
C23_WitnessBase ==
    /\ op.name = "wrmsr_apic_base"
    /\ ret = 1
    /\ vlapic_x2apic_mode(ModeSelf)
    /\ ModeSelf.pt.active

----------------------------------------------------------------------------
(* SpecRestore: restore attempts on a fresh two-vcpu domain.  A stream     *)
(* holds a 'hidden' and a 'regs' entry, in either order.  An attempt runs  *)
(* the check handlers over the whole stream and, if none fails, the load   *)
(* handlers, one entry at a step; a failed attempt is abandoned and may be *)
(* followed by another attempt on a new domain.                            *)

\* MSR_APIC_BASE of a 'hidden' record: xAPIC, x2APIC, EXTD without ENABLE,
\* disabled
RestoreBaseValues ==
    { ApicBase(APIC_DEFAULT_PHYS_BASE, TRUE, FALSE, FALSE, FALSE),
      ApicBase(APIC_DEFAULT_PHYS_BASE, TRUE, TRUE, FALSE, FALSE),
      ApicBase(APIC_DEFAULT_PHYS_BASE, FALSE, TRUE, FALSE, FALSE),
      ApicBase(APIC_DEFAULT_PHYS_BASE, FALSE, FALSE, FALSE, FALSE) }

\* the records are those of vcpu 1 after vlapic_init, with the fields below
\* replaced
RestoreHw(base) ==
    [HwOf(vlapic_init_vcpu(1)) EXCEPT
        !.apic_base_msr = base,
        !.disabled = IF base.enable THEN {VLAPIC_SW_DISABLED}
                     ELSE {VLAPIC_SW_DISABLED, VLAPIC_HW_DISABLED}]

RestoreRegs(id, ldr, tmict) ==
    [RegsOf(vlapic_init_vcpu(1)) EXCEPT
        !.id = id, !.ldr = ldr, !.tmict = tmict, !.lvt[LVTT] = 49]

\* 'hidden' entries: of a vcpu the domain has not, missing or short, and
\* one for each base value
HiddenEntries ==
    { HvmEntry(5, TRUE, RestoreHw(ApicBase(APIC_DEFAULT_PHYS_BASE, TRUE,
                                           FALSE, FALSE, FALSE))),
      HvmEntry(1, FALSE, RestoreHw(ApicBase(APIC_DEFAULT_PHYS_BASE, TRUE,
                                            FALSE, FALSE, FALSE))) }
        \cup { HvmEntry(1, TRUE, RestoreHw(base)) : base \in RestoreBaseValues }

\* (ID, LDR) of a 'regs' record: xAPIC; x2APIC with the logical destination
\* derived from the ID; LDR 1 (Xen <= 4.4); derived from the vcpu index;
\* bogus
RestoreIdLdr ==
    { <<ShiftLeft(WordOf(2), 24), {}>>,
      <<WordOf(2), x2apic_ldr_from_id(WordOf(2))>>,
      <<WordOf(2), WordOf(1)>>,
      <<WordOf(2), x2apic_ldr_from_id(WordOf(1))>>,
      <<WordOf(2), WordOf(8)>> }

RegsEntries ==
    { HvmEntry(5, TRUE, RestoreRegs(WordOf(2), {2}, 0)),
      HvmEntry(1, FALSE, RestoreRegs(WordOf(2), {2}, 0)),
      HvmEntry(1, TRUE, RestoreRegs(WordOf(2), WordOf(1), 3)) }
        \cup { HvmEntry(1, TRUE, RestoreRegs(p[1], p[2], 0)) : p \in RestoreIdLdr }

\* the streams: the two entries with their types, in either order
RestoreStreams ==
    { <<[type |-> "hidden", h |-> a], [type |-> "regs", h |-> b]>> :
          a \in HiddenEntries, b \in RegsEntries }
    \cup
    { <<[type |-> "regs", h |-> b], [type |-> "hidden", h |-> a]>> :
          a \in HiddenEntries, b \in RegsEntries }

\* the check handler of an entry
restore_check_entry(d, e) ==
    IF e.type = "hidden" THEN lapic_check_hidden(d, e.h)
    ELSE lapic_check_regs(d, e.h)

\* the check pass of hvm_load: the first error, or 0
RECURSIVE restore_check_pass(_, _, _)
restore_check_pass(d, stream, i) ==
    IF i > Len(stream) THEN [ret |-> 0, at |-> 0]
    ELSE LET rc == restore_check_entry(d, stream[i])
         IN  IF rc # 0 THEN [ret |-> rc, at |-> i]
             ELSE restore_check_pass(d, stream, i + 1)

\* the load handler of an entry
restore_load_entry(d, e, now) ==
    IF e.type = "hidden" THEN lapic_load_hidden(d, e.h)
    ELSE lapic_load_regs(d, e.h, now)

\* why the check of an entry fails
RestoreCauses(d, e) ==
    (IF e.h.instance \notin DOMAIN d.vcpu THEN {"vcpu"} ELSE {})
        \cup (IF ~e.h.present THEN {"record"} ELSE {})
        \cup (IF e.type = "hidden" /\ e.h.present
                  /\ e.h.data.apic_base_msr.extd
                  /\ ~e.h.data.apic_base_msr.enable
              THEN {"mode"} ELSE {})

\* a new domain, its compatibility flag clear or latched
RestoreDomain(bug) ==
    DomainOf([i \in 0..1 |->
                 [vlapic_init_vcpu(i) EXCEPT !.x2apic = TRUE,
                                             !.bug_x2apic_ldr_vcpu_id = bug]])

RestoreAttempt(stream, bug, failed) ==
    [d |-> RestoreDomain(bug), start |-> RestoreDomain(bug),
     now |-> StartTime, stream |-> stream, phase |-> "new", next |-> 1,
     fixups |-> 0, failed |-> failed]

RestoreCheck ==
    /\ domain.phase = "new"
    /\ LET r == restore_check_pass(domain.d, domain.stream, 1)
       IN  /\ ret' = r.ret
           /\ op' = Op("restore_check", r.at, 0)
           /\ domain' =
                 [domain EXCEPT
                     !.phase = IF r.ret = 0 THEN "checked" ELSE "failed",
                     !.failed =
                        IF r.ret # 0
                        THEN @ \cup { <<c, r.ret>> :
                                 c \in RestoreCauses(domain.d,
                                                     domain.stream[r.at]) }
                        ELSE @]
    /\ UNCHANGED <<vlapic, hvm, ctx>>

RestoreLoad ==
    /\ domain.phase = "checked"
    /\ LET e == domain.stream[domain.next]
           r == restore_load_entry(domain.d, e, domain.now)
       IN  /\ ret' = r.ret
           /\ op' = Op("restore_load", domain.next, IF r.fixup THEN 1 ELSE 0)
           /\ domain' =
                 [domain EXCEPT
                     !.d = r.d,
                     !.next = @ + 1,
                     !.fixups = IF r.fixup THEN @ + 1 ELSE @,
                     !.phase = IF domain.next = Len(domain.stream)
                               THEN "done" ELSE "checked"]
    /\ UNCHANGED <<vlapic, hvm, ctx>>

\* after a failed attempt, another stream is restored into a new domain
RestoreRetry ==
    /\ domain.phase = "failed"
    /\ \E stream \in RestoreStreams, bug \in BOOLEAN :
          domain' = RestoreAttempt(stream, bug, domain.failed)
    /\ op' = Op("restore_retry", 0, 0)
    /\ ret' = 0
    /\ UNCHANGED <<vlapic, hvm, ctx>>

InitRestore ==
    /\ vlapic = vlapic_init
    /\ hvm = Platform(FALSE, FALSE, FALSE, FALSE, FALSE, 0)
    /\ ctx = [c \in Contexts |-> IdleCtx]
    /\ op = Op("init", 0, 0)
    /\ ret = 0
    /\ \E stream \in RestoreStreams, bug \in BOOLEAN :
          domain = RestoreAttempt(stream, bug, {})

NextRestore ==
    \/ RestoreCheck
    \/ RestoreLoad
    \/ RestoreRetry

SpecRestore == InitRestore /\ [][NextRestore]_vars

\* the 'hidden' entry of the stream
HiddenOf(stream) ==
    (CHOOSE i \in DOMAIN stream : stream[i].type = "hidden")

(* C24: a stream whose 'hidden' record has the extended-addressing bit set *)
(* and the enable bit clear is rejected by the check pass with an error    *)
(* (-EINVAL from the check of that record, when no earlier entry fails),   *)
(* and no load handler runs: the controller, hidden state and register     *)
(* file, is as it was before the attempt.                                  *)

C24_IllegalModeRejected ==
    [][ (/\ op'.name = "restore_check"
         /\ "mode" \in RestoreCauses(domain.d,
                           domain.stream[HiddenOf(domain.stream)]))
        => /\ ret' # 0
           /\ op'.arg = HiddenOf(domain.stream) => ret' = -EINVAL
           /\ op'.arg <= HiddenOf(domain.stream)
           /\ domain'.phase = "failed"
           /\ domain'.d = domain.start
           /\ domain'.d = domain.d ]_vars

\* the 'regs' entry was checked first and passed, the 'hidden' entry was
\* refused
C24_Witness ==
    /\ op.name = "restore_check"
    /\ op.arg = 2
    /\ domain.stream[2].type = "hidden"
    /\ RestoreCauses(domain.d, domain.stream[2]) = {"mode"}
    /\ ret = -EINVAL
    /\ domain.phase = "failed"
    /\ domain.d = domain.start

(* C25, as stated: failed restores report a distinguishable error per      *)
(* cause: a missing or short record, the extended-without-enabled          *)
(* addressing combination and an absent target virtual processor each      *)
(* yield an error value different from those of the other two causes.      *)

C25_Original_DistinctErrors ==
    \A p \in domain.failed, q \in domain.failed :
        p[1] # q[1] => p[2] # q[2]

(* C25, amended: a missing or short record yields -ENODATA, which no other *)
(* cause yields; the extended-without-enabled addressing combination and   *)
(* an absent target virtual processor both yield -EINVAL.                  *)

C25_RestoreErrors ==
    \A p \in domain.failed :
        /\ p[1] = "record" => p[2] = -ENODATA
        /\ p[1] \in {"mode", "vcpu"} => p[2] = -EINVAL
        /\ p[2] \in {-ENODATA, -EINVAL}

\* attempts have failed for each of the three causes
C25_Witness ==
    /\ op.name = "restore_check"
    /\ ret # 0
    /\ domain.failed = { <<"record", -ENODATA>>, <<"mode", -EINVAL>>,
                         <<"vcpu", -EINVAL>> }

\* both entries loaded into the new domain, 'hidden' first and 'regs' first
LoadedHiddenFirst(start, stream, now) ==
    LET a == stream[HiddenOf(stream)].h
        b == stream[3 - HiddenOf(stream)].h
    IN  lapic_load_regs(lapic_load_hidden(start, a).d, b, now).d

LoadedRegsFirst(start, stream, now) ==
    LET a == stream[HiddenOf(stream)].h
        b == stream[3 - HiddenOf(stream)].h
    IN  lapic_load_hidden(lapic_load_regs(start, b, now).d, a).d

\* what the fixup pass decides: ID and logical destination of vcpu v, and
\* the compatibility flag of the domain
FixupView(d, v) ==
    [id  |-> d.vcpu[v].id, ldr |-> d.vcpu[v].ldr,
     bug |-> [i \in DOMAIN d.vcpu |-> d.vcpu[i].bug_x2apic_ldr_vcpu_id]]

(* C26: from cleared staging fields, loading the 'hidden' record and then  *)
(* the 'regs' record of a vcpu, or 'regs' and then 'hidden', runs the      *)
(* fixup pass once, on the second load and not on the first, and both      *)
(* orders end with the same ID, logical destination register and           *)
(* compatibility flag.                                                     *)

C26_LoadOrder ==
    /\ (domain.phase = "checked" /\ domain.next = 2) => domain.fixups = 0
    /\ op.name = "restore_load" => op.flag = (IF op.arg = 2 THEN 1 ELSE 0)
    /\ domain.phase = "done" =>
          /\ domain.fixups = 1
          /\ FixupView(domain.d, 1)
                = FixupView(LoadedHiddenFirst(domain.start, domain.stream,
                                              domain.now), 1)
          /\ FixupView(domain.d, 1)
                = FixupView(LoadedRegsFirst(domain.start, domain.stream,
                                            domain.now), 1)

\* 'regs' loaded first, then 'hidden' in extended addressing: the fixup ran
\* on the second load, found the logical destination derived from the vcpu
\* index and latched the flag
C26_Witness ==
    /\ domain.phase = "done"
    /\ domain.stream[1].type = "regs"
    /\ op.name = "restore_load" /\ op.arg = 2 /\ op.flag = 1
    /\ ~domain.start.vcpu[1].bug_x2apic_ldr_vcpu_id
    /\ domain.d.vcpu[1].bug_x2apic_ldr_vcpu_id
    /\ domain.d.vcpu[0].bug_x2apic_ldr_vcpu_id
    /\ domain.d.vcpu[1].ldr = {1}

\* LDR 1 loaded in extended addressing: the fixup derived the logical
\* destination from the ID
C26_WitnessLdr1 ==
    /\ domain.phase = "done"
    /\ domain.d.vcpu[1].loaded.ldr = {0}
    /\ vlapic_x2apic_mode(domain.d.vcpu[1])
    /\ domain.d.vcpu[1].ldr = {2}

----------------------------------------------------------------------------
(* Acknowledgment with the APIC assist, end of interrupt, error raise      *)

\* vlapic_ack_pending_irq reaches viridian_apic_assist_set: the call is not
\* the direct-delivery no-op, the assist is available, the vector is edge
\* triggered and above 0x10, and nothing is in service
AckElides(s, vector, force) ==
    /\ force \/ ~hvm.virtual_intr_delivery
    /\ hvm.apic_assist
    /\ ~vlapic_test_vector(vector, s.tmr)
    /\ vlapic_find_highest_isr(s) = -1
    /\ vector > 16

(* C27, as stated: when the acknowledgment takes the elision path, it sets *)
(* the elision state instead of marking the vector in service: after the   *)
(* call the in-service bit of the vector is clear.                         *)

C27_Original_ElisionSkipsIsr ==
    [][ (op'.name = "ack_pending_irq"
            /\ AckElides(vlapic, op'.arg, op'.flag \in {1, 3}))
        => /\ vlapic'.assist_pending /\ vlapic'.no_eoi
           /\ op'.arg \notin vlapic'.isr ]_vars

(* C27, amended: when the acknowledgment takes the elision path, it sets   *)
(* the elision state and then marks the vector as every acknowledgment     *)
(* does: the in-service bit of the vector is set, unless a synthetic-      *)
(* interrupt source claims the vector as auto-EOI, and its in-request bit  *)
(* is clear.                                                               *)

C27_ElisionAlsoMarksIsr ==
    [][ (op'.name = "ack_pending_irq"
            /\ AckElides(vlapic, op'.arg, op'.flag \in {1, 3}))
        => /\ vlapic'.assist_pending /\ vlapic'.no_eoi
           /\ vlapic'.isr = IF hvm.synic /\ op'.flag \in {2, 3}
                            THEN vlapic.isr
                            ELSE vlapic.isr \cup {op'.arg}
           /\ op'.arg \notin vlapic'.irr
           /\ ret' = 1 ]_vars

\* 0x31 was acknowledged with the assist set, and is in service
C27_Witness ==
    /\ op.name = "ack_pending_irq" /\ op.arg = 49 /\ op.flag = 0
    /\ hvm.apic_assist
    /\ vlapic.assist_pending /\ vlapic.no_eoi
    /\ vlapic.isr = {49}
    /\ 49 \notin vlapic.tmr

\* the bitmap without its highest vector
WithoutHighest(bitmap) ==
    IF bitmap = {} THEN {} ELSE bitmap \ {SetMax(bitmap)}

\* the vectors whose end of interrupt the device-interrupt collaborator was
\* told of: one per run of the end-of-interrupt sequence
EoiRuns(s) == { v \in 0..255 : <<"hvm_dpci_msi_eoi", v>> \in s.notified }

(* C28: an end-of-interrupt call with no elided end of interrupt           *)
(* outstanding clears one in-service bit, the highest (none if none is     *)
(* set); with the elision-completed flag set it consumes the flag and runs *)
(* the sequence once more, clearing the two highest in-service bits (or    *)
(* the only one); a call never clears more than two in-service bits, sets  *)
(* none, runs the sequence once per bit it clears, and leaves the          *)
(* in-request bitmap alone.                                                *)

C28_EoiClears ==
    [][ op'.name = "eoi_write" =>
          LET missed == viridian_apic_assist_completed(vlapic).ret
          IN  /\ ~missed => vlapic'.isr = WithoutHighest(vlapic.isr)
              /\ missed =>
                    /\ vlapic'.isr = WithoutHighest(WithoutHighest(vlapic.isr))
                    /\ ~viridian_apic_assist_completed(vlapic').ret
                    /\ ~vlapic'.assist_pending
              /\ vlapic'.isr \subseteq vlapic.isr
              /\ Cardinality(vlapic.isr \ vlapic'.isr) <= 2
              /\ EoiRuns(vlapic') = vlapic.isr \ vlapic'.isr
              /\ vlapic'.irr = vlapic.irr ]_vars

\* one end-of-interrupt write completed 0x42, whose end of interrupt the
\* guest had skipped, and 0x31
C28_Witness ==
    /\ op.name = "eoi_write"
    /\ EoiRuns(vlapic) = {49, 66}
    /\ vlapic.isr = {}
    /\ ~vlapic.assist_pending

\* the number of accesses a context has at most before its call returns:
\* vlapic_set_irq of an illegal vector enters vlapic_error, which may
\* enter vlapic_set_irq of a legal vector only
StepsLeft(c) ==
    CASE c.pc = "idle"      -> 0
      [] c.pc = "deliver"   -> 1
      [] c.pc = "fold"      -> 1
      [] c.pc = "set_irq"   -> IF APIC_VECTOR_VALID(c.vec) THEN 2 ELSE 5
      [] c.pc = "error_lvt" -> 3
      [] c.pc = "error"     -> 4

\* the vectors pending in IRR or posted
Requested(s) == s.irr \cup s.pir

(* C29: a raise of an error bit returns after a bounded number of steps    *)
(* and never enters vlapic_error a second time: every step of a call       *)
(* lowers the number of steps it has left.  With the error LVT entry       *)
(* unmasked and its vector illegal, a raise that found its bit clear       *)
(* injects nothing, sets the receive-illegal-vector bit of the pending     *)
(* error status and returns; with a legal vector the injection it makes    *)
(* sets the in-request bit and returns without touching the error status.  *)

C29_RaiseTerminates ==
    [][\A c \in Contexts :
        LET lvterr == vlapic.lvt[LVTERR]
        IN  /\ (ctx[c].pc # "idle" /\ ctx'[c] # ctx[c]) =>
                   StepsLeft(ctx'[c]) < StepsLeft(ctx[c])
            /\ (ctx'[c] # ctx[c] /\ ctx'[c].pc = "error") => ctx[c].pc = "idle"
            /\ (Stepped(c, "error_lvt") /\ ~Bit(lvterr, APIC_LVT_MASKED)
                  /\ ~APIC_VECTOR_VALID(lvterr)) =>
                   /\ ctx'[c].pc = "fold"
                   /\ vlapic' = vlapic
            /\ Stepped(c, "fold") =>
                   /\ ctx'[c] = IdleCtx
                   /\ vlapic'.pending_esr =
                          vlapic.pending_esr \cup {ESR_RECVILL_BIT}
                   /\ Requested(vlapic') = Requested(vlapic)
                   /\ vlapic'.asserts = vlapic.asserts
            /\ (Stepped(c, "error_lvt") /\ ctx'[c].pc = "set_irq") =>
                   /\ APIC_VECTOR_VALID(ctx'[c].vec)
                   /\ ctx'[c].vec = VectorOf(lvterr)
            /\ Stepped(c, "set_irq") =>
                   /\ ctx'[c].pc = "deliver"
                   /\ vlapic'.pending_esr = vlapic.pending_esr
            /\ Stepped(c, "deliver") =>
                   /\ ctx'[c] = IdleCtx
                   /\ vlapic'.pending_esr = vlapic.pending_esr
                   /\ Requested(vlapic') = Requested(vlapic) \cup {ctx[c].vec}
       ]_vars

\* a send-illegal-vector error was raised with LVTERR unmasked and holding
\* vector 0x05: the receive-illegal-vector bit was folded in, nothing was
\* injected, and the call has returned
C29_Witness ==
    /\ AllIdle
    /\ vlapic.lvt[LVTERR] = 5
    /\ vlapic.pending_esr = {ESR_SENDILL_BIT, ESR_RECVILL_BIT}
    /\ vlapic.esr = {}
    /\ Requested(vlapic) = {}
    /\ \A v \in DOMAIN vlapic.asserts : vlapic.asserts[v] = 0

----------------------------------------------------------------------------
(* SpecDeadline: writes and reads of the TSC-deadline MSR of one           *)
(* controller, with mode changes, hardware disabling, expiry and guest     *)
(* time in domain.now; domain.fired holds from the run of the deadline     *)
(* callback to the next deadline write                                     *)

\* no deadline, one in the past, two after the start
DeadlineValues ==
    {0, 500, (StartTime + 30) * TscPerNs, (StartTime + 30) * TscPerNs + 41}

\* one-shot and deadline mode, vector 49
DeadlineLvttValues == {49, APIC_TIMER_MODE_TSC_DEADLINE + 49}

DeadlineBaseValues ==
    { ApicBase(APIC_DEFAULT_PHYS_BASE, TRUE, FALSE, FALSE, FALSE),
      ApicBase(APIC_DEFAULT_PHYS_BASE, FALSE, FALSE, FALSE, FALSE) }

\* guest_wrmsr(MSR_IA32_TSC_DEADLINE): vlapic_tdt_msr_set
DeadlineWrite ==
    /\ \E value \in DeadlineValues :
          /\ vlapic' = vlapic_tdt_msr_set(vlapic, domain.now, value)
          /\ op' = Op("tdt_msr_set", value, 0)
    /\ domain' = [domain EXCEPT !.fired = FALSE]
    /\ ret' = 0
    /\ UNCHANGED <<hvm, ctx>>

\* guest_rdmsr(MSR_IA32_TSC_DEADLINE): vlapic_tdt_msr_get
DeadlineRead ==
    /\ ret' = vlapic_tdt_msr_get(vlapic)
    /\ op' = Op("tdt_msr_get", 0, 0)
    /\ UNCHANGED <<vlapic, hvm, ctx, domain>>

DeadlineLvttWrite ==
    /\ \E val \in DeadlineLvttValues :
          vlapic' = reg_write_lvtt(vlapic, domain.now, val)
    /\ op' = Op("lvtt_write", 0, 0)
    /\ ret' = 0
    /\ UNCHANGED <<hvm, ctx, domain>>

DeadlineBaseWrite ==
    /\ \E val \in DeadlineBaseValues :
          vlapic' = guest_wrmsr_apic_base(vlapic, val).s
    /\ op' = Op("wrmsr_apic_base", 0, 0)
    /\ ret' = 0
    /\ UNCHANGED <<hvm, ctx, domain>>

DeadlineExpiry ==
    /\ vlapic.pt.active
    /\ vlapic.pt.expires <= domain.now
    /\ vlapic' = pt_timer_fired(vlapic, domain.now)
    /\ op' = Op("timer_expiry", 0, 0)
    /\ domain' = [domain EXCEPT !.fired = vlapic.pt.cb = "tdt_pt_cb"]
    /\ ret' = 0
    /\ UNCHANGED <<hvm, ctx>>

InitDeadline ==
    /\ hvm = Platform(FALSE, FALSE, FALSE, FALSE, FALSE, 0)
    /\ vlapic = reg_write_spiv(vlapic_init, APIC_SPIV_APIC_ENABLED + 255)
    /\ ctx = [c \in Contexts |-> IdleCtx]
    /\ op = Op("init", 0, 0)
    /\ ret = 0
    /\ domain = [now |-> StartTime, fired |-> FALSE]

NextDeadline ==
    \/ DeadlineWrite
    \/ DeadlineRead
    \/ DeadlineLvttWrite
    \/ DeadlineBaseWrite
    \/ DeadlineExpiry
    \/ Advance

SpecDeadline == InitDeadline /\ [][NextDeadline]_vars

\* a single-shot registration of the deadline callback due at time at
DeadlineShot(at) ==
    [active |-> TRUE, expires |-> at, period |-> 0, cb |-> "tdt_pt_cb"]

(* C30: a deadline write on a hardware-enabled controller in deadline mode *)
(* stores a value above the guest counter as the pending deadline and      *)
(* registers a single shot for the difference in guest time; a nonzero     *)
(* value not above the counter leaves the pending deadline 0 and registers *)
(* a single shot with no delay; the value 0 leaves the pending deadline 0  *)
(* and removes the registration.  A deadline write on a hardware-disabled  *)
(* controller or outside deadline mode changes nothing.  A read of the     *)
(* deadline outside deadline mode, or after the deadline callback has run  *)
(* and before the next deadline write, returns 0.                          *)

C30_DeadlineCases ==
    [][ /\ op'.name = "tdt_msr_set" =>
             LET value     == op'.arg
                 guest_tsc == hvm_get_guest_tsc(domain.now)
             IN  IF VLAPIC_HW_DISABLED \in vlapic.disabled
                    \/ ~vlapic_lvtt_tdt(vlapic)
                 THEN vlapic' = vlapic
                 ELSE /\ value > guest_tsc =>
                            /\ vlapic'.tdt_msr = value
                            /\ vlapic'.pt =
                                   DeadlineShot(domain.now
                                       + (value - guest_tsc) \div TscPerNs)
                      /\ (value > 0 /\ value <= guest_tsc) =>
                            /\ vlapic'.tdt_msr = 0
                            /\ vlapic'.pt = DeadlineShot(domain.now)
                      /\ value = 0 =>
                            /\ vlapic'.tdt_msr = 0
                            /\ vlapic'.pt = NoTimer
        /\ op'.name = "tdt_msr_get" =>
             /\ vlapic' = vlapic
             /\ ~vlapic_lvtt_tdt(vlapic) => ret' = 0
             /\ domain.fired => ret' = 0
             /\ (vlapic_lvtt_tdt(vlapic) /\ ~domain.fired) =>
                    ret' = vlapic.tdt_msr ]_vars

\* a deadline 30 ns ahead was written, the registration expired and the
\* callback ran: the deadline reads 0 in deadline mode
C30_Witness ==
    /\ op.name = "tdt_msr_get"
    /\ ret = 0
    /\ domain.fired
    /\ vlapic_lvtt_tdt(vlapic)
    /\ domain.now = StartTime + 30

\* a deadline above the counter was stored and a single shot registered
C30_WitnessFuture ==
    /\ op.name = "tdt_msr_set"
    /\ op.arg = (StartTime + 30) * TscPerNs + 41
    /\ vlapic.tdt_msr = op.arg
    /\ vlapic.pt = DeadlineShot(StartTime + 50)
    /\ domain.now = StartTime + 10

\* a deadline in the past was written: no deadline pending, a single shot
\* with no delay
C30_WitnessPast ==
    /\ op.name = "tdt_msr_set"
    /\ op.arg = (StartTime + 30) * TscPerNs
    /\ vlapic.tdt_msr = 0
    /\ vlapic.pt = DeadlineShot(domain.now)

\* the value 0 removed a pending registration
C30_WitnessCancel ==
    /\ op.name = "tdt_msr_set"
    /\ op.arg = 0
    /\ vlapic_lvtt_tdt(vlapic)
    /\ VLAPIC_HW_DISABLED \notin vlapic.disabled
    /\ vlapic.pt = NoTimer

\* a deadline write on a hardware-disabled controller in deadline mode
\* left the pending deadline and the registration alone
C30_WitnessDisabled ==
    /\ op.name = "tdt_msr_set"
    /\ op.arg = 0
    /\ vlapic_lvtt_tdt(vlapic)
    /\ VLAPIC_HW_DISABLED \in vlapic.disabled
    /\ vlapic.tdt_msr # 0
    /\ vlapic.pt.active

----------------------------------------------------------------------------
(* SpecErrReset: the error-status path of SpecErr, with the software INIT  *)
(* and the power-on reset that guest_wrmsr_apic_base runs when the enable  *)
(* bit goes from 0 to 1                                                    *)

\* INIT handled for the vcpu: vlapic_do_init
ErrInitSignal ==
    /\ vlapic' = vlapic_do_init(Begin)
    /\ op' = Op("init_signal", 0, 0)
    /\ ret' = 0
    /\ UNCHANGED <<hvm, ctx, domain>>

\* a write of MSR_APIC_BASE; op.arg is 1 when it ran vlapic_reset
ErrBaseWrite ==
    /\ \E val \in ApicBaseValues :
          LET r == guest_wrmsr_apic_base(Begin, val)
          IN  /\ vlapic' = r.s
              /\ ret' = r.ret
              /\ op' = Op("wrmsr_apic_base",
                          IF r.ret = 0 /\ ~vlapic.apic_base_msr.enable
                             /\ val.enable
                          THEN 1 ELSE 0, 0)
    /\ UNCHANGED <<hvm, ctx, domain>>

NextErrReset ==
    \/ NextErr
    \/ ErrInitSignal
    \/ ErrBaseWrite

SpecErrReset == InitErr /\ [][NextErrReset]_vars

\* the operation that ends in the next state ran the shared reset routine
RanDoInit ==
    \/ op'.name = "init_signal"
    \/ op'.name = "wrmsr_apic_base" /\ op'.arg = 1

(* C31: after a power-on reset or a software INIT, the error-status        *)
(* register and the pending error-status accumulator are both zero,        *)
(* whatever errors were recorded before.                                   *)

C31_ResetClearsErrors ==
    [][RanDoInit => vlapic'.esr = {} /\ vlapic'.pending_esr = {}]_vars

\* what the reset routine does to the error registers: nothing
C31_ResetKeepsErrors ==
    [][RanDoInit => /\ vlapic'.esr = vlapic.esr
                    /\ vlapic'.pending_esr = vlapic.pending_esr]_vars

\* an INIT, or a power-on reset, has left a recorded and a pending error
C31_Witness ==
    /\ op.name \in {"init_signal", "wrmsr_apic_base"}
    /\ op.name = "wrmsr_apic_base" => op.arg = 1
    /\ vlapic.esr = {ESR_RECVILL_BIT}
    /\ vlapic.pending_esr = {ESR_RECVILL_BIT}

----------------------------------------------------------------------------
(* SpecBase: writes of MSR_APIC_BASE by the guest, INITs and power-on      *)
(* resets of one controller, the domain's policy with x2APIC or without.   *)
(* domain.val is the value last written by the guest, domain.from the mode *)
(* the write found.                                                        *)

\* the default window and another one; every combination of the enable,
\* EXTD and BSP bits; a reserved bit set or not
BaseWriteValues ==
    { ApicBase(APIC_DEFAULT_PHYS_BASE + a, en, x, bsp, rsvd) :
        a \in {0, 1}, en \in BOOLEAN, x \in BOOLEAN, bsp \in BOOLEAN,
        rsvd \in BOOLEAN }

\* the mode a value of MSR_APIC_BASE selects
BaseMode(val) ==
    CASE val.enable /\ ~val.extd  -> "standard"
      [] val.enable /\ val.extd   -> "extended"
      [] ~val.enable /\ ~val.extd -> "disabled"
      [] OTHER                    -> "invalid"

BaseWrite ==
    /\ \E val \in BaseWriteValues :
          LET r == guest_wrmsr_apic_base(Begin, val)
          IN  /\ vlapic' = r.s
              /\ ret' = r.ret
              /\ domain' = [val |-> val,
                            from |-> BaseMode(vlapic.apic_base_msr)]
    /\ op' = Op("wrmsr_apic_base", 0, 0)
    /\ UNCHANGED <<hvm, ctx>>

\* INIT handled for the vcpu: vlapic_do_init
BaseInitSignal ==
    /\ vlapic' = vlapic_do_init(Begin)
    /\ op' = Op("init_signal", 0, 0)
    /\ ret' = 0
    /\ UNCHANGED <<hvm, ctx, domain>>

\* a power-on reset of the vcpu: vlapic_reset
BasePowerOn ==
    /\ vlapic' = vlapic_reset(Begin)
    /\ op' = Op("vlapic_reset", 0, 0)
    /\ ret' = 0
    /\ UNCHANGED <<hvm, ctx, domain>>

InitBase ==
    /\ hvm = Platform(FALSE, FALSE, FALSE, FALSE, FALSE, 0)
    /\ \E x \in BOOLEAN : vlapic = [vlapic_init EXCEPT !.x2apic = x]
    /\ ctx = [c \in Contexts |-> IdleCtx]
    /\ op = Op("init", 0, 0)
    /\ ret = 0
    /\ domain = [val |-> vlapic_init.apic_base_msr, from |-> "standard"]

NextBase ==
    \/ BaseWrite
    \/ BaseInitSignal
    \/ BasePowerOn
    \/ \E val \in SpivValues : SpivWrite(val)

SpecBase == InitBase /\ [][NextBase]_vars

\* the mode changes a write of MSR_APIC_BASE may make
BaseModeChanges ==
    { <<"disabled", "standard">>, <<"standard", "extended">>,
      <<"standard", "disabled">>, <<"extended", "disabled">> }

(* C32: a guest write of MSR_APIC_BASE changes the mode only along         *)
(* disabled -> standard, standard -> extended, standard -> disabled and    *)
(* extended -> disabled; a write asking for disabled -> extended or for    *)
(* extended -> standard faults and changes nothing; EXTD set with the      *)
(* enable bit clear is never reached; and an enabled controller in         *)
(* standard addressing has the default base address.                       *)

C32_ModeTransitions ==
    /\ [](/\ BaseMode(vlapic.apic_base_msr) # "invalid"
          /\ BaseMode(vlapic.apic_base_msr) = "standard" =>
                vlapic.apic_base_msr.addr = APIC_DEFAULT_PHYS_BASE)
    /\ [][op'.name = "wrmsr_apic_base" =>
            LET from  == BaseMode(vlapic.apic_base_msr)
                asked == BaseMode(domain'.val)
                to    == BaseMode(vlapic'.apic_base_msr)
            IN  /\ from # to => <<from, to>> \in BaseModeChanges
                /\ <<from, asked>> \in {<<"disabled", "extended">>,
                                        <<"extended", "standard">>} =>
                      /\ ret' = 1
                      /\ vlapic' = vlapic
                /\ ret' = 0 => vlapic'.apic_base_msr = domain'.val
                /\ ret' = 1 => vlapic' = vlapic]_vars

\* a controller in extended addressing with a moved base was disabled by
\* its guest
C32_Witness ==
    /\ op.name = "wrmsr_apic_base"
    /\ ret = 0
    /\ domain.from = "extended"
    /\ BaseMode(vlapic.apic_base_msr) = "disabled"
    /\ vlapic.apic_base_msr.addr # APIC_DEFAULT_PHYS_BASE

\* a write asking to leave extended addressing for standard addressing
\* faulted
C32_WitnessRefused ==
    /\ op.name = "wrmsr_apic_base"
    /\ ret = 1
    /\ domain.from = "extended"
    /\ BaseMode(domain.val) = "standard"
    /\ domain.val.addr = APIC_DEFAULT_PHYS_BASE
    /\ ~domain.val.rsvd
    /\ BaseMode(vlapic.apic_base_msr) = "extended"

\* a write asking to enable a disabled controller in extended addressing
\* faulted
C32_WitnessNoJump ==
    /\ op.name = "wrmsr_apic_base"
    /\ ret = 1
    /\ vlapic.x2apic
    /\ domain.from = "disabled"
    /\ BaseMode(domain.val) = "extended"
    /\ ~domain.val.rsvd

(* C33: in every state reached by creation, writes of MSR_APIC_BASE,       *)
(* power-on resets and INITs in any order, the hardware-disabled flag is   *)
(* set exactly when the enable bit of MSR_APIC_BASE is clear.              *)

C33_HwDisabledIffNotEnabled ==
    (VLAPIC_HW_DISABLED \in vlapic.disabled) <=> ~vlapic.apic_base_msr.enable

\* without power-on resets after creation the two agree: the flag and the
\* enable bit change only together, in guest_wrmsr_apic_base
C33_WritesKeepFlagAndBit ==
    [][op'.name # "vlapic_reset" =>
          (C33_HwDisabledIffNotEnabled => C33_HwDisabledIffNotEnabled')]_vars

\* a power-on reset of a controller its guest had hardware-disabled: the
\* enable bit is set, the flag is still set
C33_Witness ==
    /\ op.name = "vlapic_reset"
    /\ vlapic.apic_base_msr.enable
    /\ VLAPIC_HW_DISABLED \in vlapic.disabled

----------------------------------------------------------------------------
(* SpecLvt: vcpu 1 of a two-vcpu domain writes its six local-vector-table  *)
(* registers and its spurious-vector register through the MMIO window,     *)
(* writes MSR_APIC_BASE and receives INIT                                  *)

LvtRegs == {"LVTT", "LVTTHMR", "LVTPC", "LVT0", "LVT1", "LVTERR"}

\* vector 0x31, unmasked and masked
LvtWriteValues == {49, APIC_LVT_MASKED + 49}

\* op.arg is the index of the register, op.flag 1 for an unmasked value
LvtWrite ==
    /\ vlapic_range(ModeSelf)
    /\ \E reg \in LvtRegs, val \in LvtWriteValues :
          /\ domain' = [domain EXCEPT
                           !.d = ModeObserved(
                                     vlapic_mmio_write(@, 1, domain.now,
                                                       reg, val))]
          /\ op' = Op("lvt_write", LvtIndex(reg),
                      IF Bit(val, APIC_LVT_MASKED) THEN 0 ELSE 1)
    /\ ret' = 0
    /\ UNCHANGED <<vlapic, hvm, ctx>>

LvtSpivWrite ==
    /\ vlapic_range(ModeSelf)
    /\ \E val \in SpivValues :
          domain' = [domain EXCEPT
                        !.d = ModeObserved(
                                  vlapic_mmio_write(@, 1, domain.now,
                                                    "SPIV", val))]
    /\ op' = Op("spiv_write", 0, 0)
    /\ ret' = 0
    /\ UNCHANGED <<vlapic, hvm, ctx>>

InitLvt ==
    /\ vlapic = vlapic_init
    /\ hvm = Platform(FALSE, FALSE, FALSE, FALSE, FALSE, 0)
    /\ ctx = [c \in Contexts |-> IdleCtx]
    /\ op = Op("init", 0, 0)
    /\ ret = 0
    /\ domain = [d   |-> DomainOf([i \in 0..1 |-> vlapic_init_vcpu(i)]),
                 now |-> StartTime]

NextLvt ==
    \/ LvtWrite
    \/ LvtSpivWrite
    \/ ModeApicBaseWrite
    \/ ModeInitSignal

SpecLvt == InitLvt /\ [][NextLvt]_vars

\* every local-vector-table entry of s has its mask bit set
AllLvtMasked(s) ==
    \A i \in 0..(VLAPIC_LVT_NUM - 1) : Bit(s.lvt[i], APIC_LVT_MASKED)

(* C34: in every state reached by register writes and resets, while the    *)
(* software-disabled flag is set every one of the six local-vector-table   *)
(* entries has its mask bit set.                                           *)

C34_SwDisabledMasksLvt ==
    VLAPIC_SW_DISABLED \in ModeSelf.disabled => AllLvtMasked(ModeSelf)

\* an unmasked value was written to LVT0 of a software-disabled controller:
\* the vector is stored, the mask bit forced on
C34_Witness ==
    /\ op = Op("lvt_write", 3, 1)
    /\ VLAPIC_SW_DISABLED \in ModeSelf.disabled
    /\ ModeSelf.lvt[3] = APIC_LVT_MASKED + 49

\* the spurious-vector register disabled a controller whose entries had all
\* been unmasked: all are masked, their vectors kept
C34_WitnessSpiv ==
    /\ op.name = "spiv_write"
    /\ VLAPIC_SW_DISABLED \in ModeSelf.disabled
    /\ \A i \in 0..(VLAPIC_LVT_NUM - 1) : ModeSelf.lvt[i] = APIC_LVT_MASKED + 49

----------------------------------------------------------------------------
(* SpecDivisor: vcpu 1 of a two-vcpu domain writes its timer registers,    *)
(* receives INIT, reads its current count, and is restored: from the       *)
(* records saved of it, or from a 'hidden' record of a stream that holds   *)
(* another divisor                                                         *)

\* every settable combination of bits 0, 1 and 3, and values with bits
\* that must be zero
DivisorTdcrValues == {0, 1, 2, 3, 8, 9, 10, 11, 4, 255}

\* divisors of a 'hidden' record: none, one no TDCR decodes to, and two
\* that some TDCR decodes to
DivisorRecordValues == {0, 3, 2, 128}

DivisorRegWrites ==
    { <<"TDCR", val>> : val \in DivisorTdcrValues }
        \cup { <<"LVTT", 49>>, <<"LVTT", APIC_TIMER_MODE_PERIODIC + 49>>,
               <<"TMICT", 0>>, <<"TMICT", 3>> }

DivisorRegWrite ==
    /\ vlapic_range(ModeSelf)
    /\ \E w \in DivisorRegWrites :
          /\ domain' = [domain EXCEPT
                           !.d = vlapic_mmio_write(@, 1, domain.now,
                                                   w[1], w[2])]
          /\ op' = Op(IF w[1] = "TDCR" THEN "tdcr_write" ELSE "timer_write",
                      0, 0)
    /\ ret' = 0
    /\ UNCHANGED <<vlapic, hvm, ctx>>

DivisorInitSignal ==
    /\ domain' = [domain EXCEPT !.d.vcpu[1] = vlapic_do_init(@)]
    /\ op' = Op("init_signal", 0, 0)
    /\ ret' = 0
    /\ UNCHANGED <<vlapic, hvm, ctx>>

\* the vcpu is restored from the two records saved of it
DivisorRestoreSaved ==
    /\ domain' = [domain EXCEPT !.d = ModeRestored(@, 1, domain.now)]
    /\ op' = Op("restore_saved", 0, 0)
    /\ ret' = 0
    /\ UNCHANGED <<vlapic, hvm, ctx>>

\* a 'hidden' record with another divisor goes through lapic_check_hidden
\* and lapic_load_hidden
DivisorRestoreHidden ==
    /\ \E div \in DivisorRecordValues :
          LET h  == HvmEntry(1, TRUE,
                             [HwOf(ModeSelf) EXCEPT !.timer_divisor = div])
              rc == lapic_check_hidden(domain.d, h)
              r  == lapic_load_hidden(domain.d, h)
          IN  /\ domain' = [domain EXCEPT !.d = IF rc = 0 THEN r.d ELSE @]
              /\ ret' = IF rc = 0 THEN r.ret ELSE rc
    /\ op' = Op("restore_hidden", 0, 0)
    /\ UNCHANGED <<vlapic, hvm, ctx>>

\* a read of APIC_TMCCT; op.flag is 1 when vlapic_get_tmcct divides by a
\* divisor of 0, and the read does not return
DivisorTmcctRead ==
    /\ LET s    == ModeSelf
           runs == vlapic_lvtt_oneshot(s) \/ vlapic_lvtt_period(s)
       IN  IF runs /\ s.timer_divisor = 0
           THEN ret' = 0 /\ op' = Op("tmcct_read", 0, 1)
           ELSE /\ ret' = vlapic_read_tmcct(s, domain.now)
                /\ op' = Op("tmcct_read", 0, 0)
    /\ UNCHANGED <<vlapic, hvm, ctx, domain>>

InitDivisor ==
    /\ vlapic = vlapic_init
    /\ hvm = Platform(FALSE, FALSE, FALSE, FALSE, FALSE, 0)
    /\ ctx = [c \in Contexts |-> IdleCtx]
    /\ op = Op("init", 0, 0)
    /\ ret = 0
    /\ domain = [d   |-> DomainOf([i \in 0..1 |-> vlapic_init_vcpu(i)]),
                 now |-> StartTime]

NextDivisor ==
    \/ DivisorRegWrite
    \/ DivisorInitSignal
    \/ DivisorRestoreSaved
    \/ DivisorRestoreHidden
    \/ DivisorTmcctRead

SpecDivisor == InitDivisor /\ [][NextDivisor]_vars

\* the divisor is a power of two up to 128 and the one TDCR decodes to
DivisorDecoded(s) ==
    /\ s.timer_divisor \in {1, 2, 4, 8, 16, 32, 64, 128}
    /\ s.timer_divisor = vlapic_set_tdcr(s, s.tdcr).timer_divisor

(* C35: in every reachable state, including states reached by restoring a  *)
(* 'hidden' record, the derived timer divisor is one of 1, 2, 4, 8, 16,    *)
(* 32, 64, 128 and equals the value decoded from the divide-configuration  *)
(* register, so the current-count derivation never divides by zero.        *)

C35_DivisorDecoded ==
    /\ DivisorDecoded(ModeSelf)
    /\ op.name = "tmcct_read" => op.flag = 0

\* register writes, INIT and a restore of the vcpu's own records keep the
\* divisor decoded from TDCR; a write of TDCR and an INIT establish it
C35_WritesKeepDivisor ==
    [][/\ op'.name \in {"tdcr_write", "init_signal"} =>
             DivisorDecoded(domain'.d.vcpu[1])
       /\ (op'.name # "restore_hidden" /\ DivisorDecoded(ModeSelf)) =>
             DivisorDecoded(domain'.d.vcpu[1])]_vars

\* a 'hidden' record with divisor 0 was accepted, and a read of the current
\* count in one-shot mode divided by it
C35_Witness ==
    /\ op = Op("tmcct_read", 0, 1)
    /\ ModeSelf.timer_divisor = 0
    /\ ModeSelf.tmict # 0

----------------------------------------------------------------------------
(* In-service vectors and priority classes *)

\* at most one vector of the bitmap in each priority class
OnePerClass(bitmap) ==
    \A a \in bitmap, b \in bitmap : a # b => HighNibble(a) # HighNibble(b)

\* the acknowledgment that ends in the next state acted on the bitmaps
Acked == op'.name = "ack_pending_irq" /\ vlapic' # Begin

(* C36: without direct virtual-interrupt delivery, every acknowledgment    *)
(* being of the vector the query just before it returned, the in-service   *)
(* vectors have pairwise different priority classes in every reachable     *)
(* state, and each newly acknowledged vector is the highest in-service     *)
(* vector at that moment.                                                  *)

C36_Original_AckedIsHighest ==
    /\ [](~hvm.virtual_intr_delivery => OnePerClass(vlapic.isr))
    /\ [][(~hvm.virtual_intr_delivery /\ Acked) =>
             op'.arg = Highest(vlapic'.isr)]_vars

\* C36, amended: as above, except that a vector of an auto-EOI synthetic
\* interrupt source is not marked in-service when it is acknowledged; the
\* in-service bitmap is then left as it was.
C36_AckedIsHighestUnlessAutoEoi ==
    /\ [](~hvm.virtual_intr_delivery => OnePerClass(vlapic.isr))
    /\ [][(~hvm.virtual_intr_delivery /\ Acked) =>
             IF hvm.synic /\ op'.flag >= 2
             THEN vlapic'.isr = vlapic.isr
             ELSE /\ vlapic'.isr = vlapic.isr \cup {op'.arg}
                  /\ op'.arg \notin vlapic.isr
                  /\ op'.arg = Highest(vlapic'.isr)
                  /\ \A v \in vlapic.isr :
                        HighNibble(v) < HighNibble(op'.arg)]_vars

\* 0x42 was acknowledged while 0x31 was in service
C36_Witness ==
    /\ ~hvm.virtual_intr_delivery
    /\ op.name = "ack_pending_irq"
    /\ op.arg = 66
    /\ op.flag < 2
    /\ vlapic.isr = {49, 66}

\* 0x42, of an auto-EOI synthetic interrupt source, was acknowledged while
\* 0x31 was in service, and is not in service
C36_WitnessAutoEoi ==
    /\ hvm.synic
    /\ op.name = "ack_pending_irq"
    /\ op.arg = 66
    /\ op.flag >= 2
    /\ vlapic.isr = {49}

-----------------------------------------------------------------------------
(* Delivery of a pending vector: the execution loop's query and             *)
(* acknowledgment, the guest's end of interrupt.  domain.quiet is set once  *)
(* no vector of a class equal to or above a pending one is asserted any     *)
(* more; domain.held holds the pending vectors a query did not return, and  *)
(* domain.calls the parity of the number of queries.                       *)

\* the counters of asserts and wake-ups are not observed here
LiveObserved(s) ==
    [s EXCEPT !.wakes = [v \in DOMAIN @ |-> 0],
              !.asserts = [v \in DOMAIN @ |-> 0],
              !.notified = {}]

LiveAllowed(vec) ==
    domain.quiet =>
        \A p \in vlapic.irr : HighNibble(vec) < HighNibble(p)

LiveSetIrq ==
    /\ \E a \in Asserts :
          /\ LiveAllowed(a[1])
          /\ vlapic' = LiveObserved(vlapic_set_irq(Begin, a[1], a[2]))
          /\ op' = Op("set_irq", a[1], 0)
    /\ ret' = 0
    /\ UNCHANGED <<hvm, ctx, domain>>

LiveQuiesce ==
    /\ ~domain.quiet
    /\ domain' = [domain EXCEPT !.quiet = TRUE]
    /\ op' = Op("quiesce", 0, 0)
    /\ UNCHANGED <<vlapic, hvm, ctx, ret>>

LiveQuery ==
    /\ LET r == vlapic_has_pending_irq(Begin, 0, FALSE)
       IN  /\ vlapic' = LiveObserved(r.s)
           /\ ret' = r.ret
           /\ domain' = [domain EXCEPT
                            !.held = IF vlapic_enabled(r.s)
                                     THEN @ \cup (r.s.irr \ {r.ret})
                                     ELSE @,
                            !.calls = 1 - @]
    /\ op' = Op("has_pending_irq", 0, 0)
    /\ UNCHANGED <<hvm, ctx>>

LiveAck ==
    /\ op.name = "has_pending_irq"
    /\ ret # -1
    /\ LET r == vlapic_ack_pending_irq(Begin, ret, FALSE, FALSE)
       IN  /\ vlapic' = LiveObserved(r.s)
           /\ ret' = r.ret
    /\ op' = Op("ack_pending_irq", ret, 0)
    /\ domain' = [domain EXCEPT !.held = @ \ {ret}]
    /\ UNCHANGED <<hvm, ctx>>

\* the guest ends the interrupt in service: a write of APIC_EOI, or the
\* write skipped as the assist page allows
LiveEoi ==
    /\ vlapic.isr # {}
    /\ \/ /\ vlapic' = LiveObserved(vlapic_EOI_set(Begin))
          /\ op' = Op("eoi_write", 0, 0)
       \/ /\ vlapic.no_eoi
          /\ vlapic' = LiveObserved([Begin EXCEPT !.no_eoi = FALSE])
          /\ op' = Op("guest_skip_eoi", 0, 0)
    /\ ret' = 0
    /\ UNCHANGED <<hvm, ctx, domain>>

LiveInitSignal ==
    /\ vlapic' = LiveObserved(vlapic_do_init(Begin))
    /\ op' = Op("init_signal", 0, 0)
    /\ ret' = 0
    /\ domain' = [domain EXCEPT !.held = {}]
    /\ UNCHANGED <<hvm, ctx>>

LiveSpivEnable ==
    /\ vlapic_sw_disabled(vlapic)
    /\ vlapic' = LiveObserved(reg_write_spiv(Begin,
                                             APIC_SPIV_APIC_ENABLED + 255))
    /\ op' = Op("spiv_write", 0, 0)
    /\ ret' = 0
    /\ UNCHANGED <<hvm, ctx, domain>>

InitLive ==
    /\ hvm \in { p \in Platforms : ~p.virtual_intr_delivery }
    /\ vlapic = vlapic_init
    /\ ctx = [c \in Contexts |-> IdleCtx]
    /\ op = Op("init", 0, 0)
    /\ ret = 0
    /\ domain = [quiet |-> FALSE, held |-> {}, calls |-> 0]

NextLive ==
    \/ LiveSetIrq
    \/ LiveQuiesce
    \/ LiveQuery
    \/ LiveAck
    \/ LiveEoi
    \/ LiveInitSignal
    \/ LiveSpivEnable

\* the query keeps being called: the weak fairness of LiveQuery, which is
\* enabled in every state
LiveQueryRecurs == []<><<LiveQuery>>_vars

\* the guest ends every interrupt in service: the weak fairness of LiveEoi,
\* which is enabled exactly while a vector is in service
LiveEoiRecurs == []<>(vlapic.isr = {}) \/ []<><<LiveEoi>>_vars

\* the asserts of the classes of pending vectors come to an end, the query
\* keeps being called, the guest ends every interrupt in service
SpecLive ==
    /\ InitLive
    /\ [][NextLive]_vars
    /\ WF_vars(LiveQuiesce)
    /\ LiveQueryRecurs
    /\ LiveEoiRecurs

LiveReturned(v) == op.name = "has_pending_irq" /\ ret = v

LivePending(v) ==
    domain.quiet /\ vlapic_enabled(vlapic) /\ v \in vlapic.irr

\* an in-request bit is cleared by the acknowledgment of its vector or by INIT
LiveClearedByAck ==
    \A v \in LegalVectors :
       (v \in vlapic.irr /\ v \notin vlapic'.irr) =>
           \/ op'.name = "ack_pending_irq" /\ op'.arg = v
           \/ op'.name = "init_signal"

LiveLeadsToReturned ==
    \A v \in LegalVectors :
       LivePending(v) ~> (LiveReturned(v) \/ op.name = "init_signal")

\* C37 as stated: a pending vector is eventually returned by the query under
\* the fairness of the query and of the end of interrupt alone
C37_Original_EventuallyReturned ==
    LiveLeadsToReturned /\ [][LiveClearedByAck]_vars

\* C37: on an enabled controller without virtual-interrupt delivery, when
\* every vector the query keeps returning is eventually acknowledged, a
\* pending vector is eventually returned by the query (or an INIT arrives),
\* and until it is acknowledged its in-request bit is cleared by nothing but
\* the INIT
C37_EventuallyReturned ==
    /\ SF_vars(LiveAck) => LiveLeadsToReturned
    /\ [][LiveClearedByAck]_vars

\* the query returns a vector that an earlier query left pending
C37_Witness ==
    /\ domain.quiet
    /\ \E v \in LegalVectors : LiveReturned(v) /\ v \in domain.held

-----------------------------------------------------------------------------
(* SpecRound: consecutive lowest-priority selections for one destination.  *)
(* domain.chosen holds the controllers returned since the enabled flags    *)
(* and the priorities last changed, the latest NVcpus of them.             *)

\* task priorities of two classes
RoundTprs == {32, 53}

RoundRemember(chosen, target) ==
    IF target = -1 THEN chosen
    ELSE IF Len(chosen) < NVcpus THEN Append(chosen, target)
    ELSE Append(Tail(chosen), target)

RoundSelect ==
    /\ LET r == vlapic_lowest_prio(domain.d, domain.rq)
       IN  /\ domain' = [domain EXCEPT
                            !.d = r.d,
                            !.chosen = RoundRemember(@, r.target)]
           /\ ret' = [target |-> r.target, examined |-> r.examined]
    /\ op' = Op("lowest_prio", 0, 0)
    /\ UNCHANGED <<vlapic, hvm, ctx>>

\* vcpu i writes its task priority
RoundTaskpriWrite ==
    /\ \E i \in VcpuIds, tpr \in RoundTprs :
          /\ domain' = [domain EXCEPT
                           !.d.vcpu[i] = reg_write_taskpri(@, tpr),
                           !.chosen = <<>>]
          /\ op' = Op("taskpri_write", i, 0)
    /\ ret' = [target |-> -1, examined |-> <<>>]
    /\ UNCHANGED <<vlapic, hvm, ctx>>

\* vcpu i writes its spurious-interrupt vector register
RoundSpivWrite ==
    /\ \E i \in VcpuIds, val \in SpivValues :
          /\ domain' = [domain EXCEPT
                           !.d.vcpu[i] = reg_write_spiv(@, val),
                           !.chosen = <<>>]
          /\ op' = Op("spiv_write", i, 0)
    /\ ret' = [target |-> -1, examined |-> <<>>]
    /\ UNCHANGED <<vlapic, hvm, ctx>>

InitRound ==
    /\ vlapic = vlapic_init
    /\ hvm = Platform(FALSE, FALSE, FALSE, FALSE, FALSE, 0)
    /\ ctx = [c \in Contexts |-> IdleCtx]
    /\ op = Op("init", 0, 0)
    /\ ret = [target |-> -1, examined |-> <<>>]
    /\ \E rq \in LowPrioRequests :
          domain = [d  |-> [vcpu |-> [i \in VcpuIds |->
                                         LowPrioController(i, FALSE, 32)],
                            round_robin_prev_vcpu |-> 0],
                    rq |-> rq,
                    chosen |-> <<>>]

NextRound ==
    \/ RoundSelect
    \/ RoundTaskpriWrite
    \/ RoundSpivWrite

SpecRound == InitRound /\ [][NextRound]_vars

\* the qualifying controllers are of one processor priority
RoundEqual(d, rq) ==
    \A i, j \in Qualifying(d, rq) : PprOf(d.vcpu[i]) = PprOf(d.vcpu[j])

\* the first of q in the virtual-processor list after old, cyclically
RoundNext(q, old, n) ==
    CHOOSE t \in q : \A i \in q : WalkPlace(t, old, n) <= WalkPlace(i, old, n)

\* the last n entries of a sequence
RoundLast(seq, n) == SubSeq(seq, Len(seq) - n + 1, Len(seq))

RoundWindow ==
    LET d  == domain.d
        q  == Qualifying(d, domain.rq)
        n  == Cardinality(q)
        w  == RoundLast(domain.chosen, n)
    IN  (n >= 1 /\ RoundEqual(d, domain.rq) /\ Len(domain.chosen) >= n) =>
           /\ { w[k] : k \in 1..n } = q
           /\ \A k \in 1..(n - 1) :
                 w[k + 1] = RoundNext(q, w[k], Cardinality(DOMAIN d.vcpu))
           /\ d.round_robin_prev_vcpu = w[n]

RoundStep ==
    /\ op'.name = "lowest_prio" =>
          LET d == domain.d
              q == Qualifying(d, domain.rq)
          IN  (q # {} /\ RoundEqual(d, domain.rq)) =>
                 ret'.target = RoundNext(q, d.round_robin_prev_vcpu,
                                         Cardinality(DOMAIN d.vcpu))
    /\ domain'.d.round_robin_prev_vcpu # domain.d.round_robin_prev_vcpu =>
          /\ op'.name = "lowest_prio"
          /\ ret'.target # -1
          /\ domain'.d.round_robin_prev_vcpu = ret'.target

\* C38: while N >= 1 controllers match a lowest-priority destination, stay
\* enabled and keep equal processor priority, N consecutive selections
\* choose each of them exactly once, in virtual-processor list order
\* starting after the previously chosen one; the round-robin index changes
\* only when a selection returns a controller and then equals its index
C38_RoundRobin == []RoundWindow /\ [][RoundStep]_vars

\* three selections among three qualifying controllers of one priority
C38_Witness ==
    /\ op.name = "lowest_prio"
    /\ Qualifying(domain.d, domain.rq) = VcpuIds
    /\ RoundEqual(domain.d, domain.rq)
    /\ Len(domain.chosen) = NVcpus
    /\ domain.chosen[1] = 1

\* two selections among two qualifying controllers, a disabled one between
C38_WitnessSkip ==
    /\ op.name = "lowest_prio"
    /\ domain.chosen = <<2, 0>>
    /\ domain.d.vcpu[1].disabled # {}
    /\ 1 \in domain.rq.dest

-----------------------------------------------------------------------------
(* SpecBroadcast: a physical-mode command without shorthand, its            *)
(* destination formed from the sender's ICR high word as vlapic_ipi forms   *)
(* it, matched against a target                                            *)

\* a sender in standard or in extended addressing
BroadcastSenders ==
    { vlapic_init_vcpu(v) : v \in MatchVcpus }
    \cup { set_x2apic_id([vlapic_init_vcpu(v)
                             EXCEPT !.apic_base_msr.extd = TRUE]) :
              v \in MatchVcpus }

\* ICR high words: 0xff000000, 0xffffffff, 0x00ffffff, 0x12000000 and 0x12
BroadcastIcrHighs ==
    { 24..31, AllOnes, 0..23, ShiftLeft(WordOf(18), 24), WordOf(18) }

\* the destination vlapic_ipi takes from the ICR high word
BroadcastDest == VLAPIC_ID_of(domain.source, domain.icr_high)

\* the broadcast ID of the sender's addressing mode
BroadcastIdOf(s) == IF s.apic_base_msr.extd THEN AllOnes ELSE WordOf(255)

BroadcastMatch ==
    /\ ret' = vlapic_match_dest(domain.target, domain.source,
                                APIC_DEST_NOSHORT, BroadcastDest, FALSE)
    /\ op' = Op("match_dest", 0, 0)
    /\ UNCHANGED <<vlapic, hvm, ctx, domain>>

InitBroadcast ==
    /\ vlapic = vlapic_init
    /\ hvm = Platform(FALSE, FALSE, FALSE, FALSE, FALSE, 0)
    /\ ctx = [c \in Contexts |-> IdleCtx]
    /\ op = Op("init", 0, 0)
    /\ ret = FALSE
    /\ \E target \in MatchTargets, source \in BroadcastSenders,
          icr_high \in BroadcastIcrHighs :
          domain = [target |-> target, source |-> source,
                    icr_high |-> icr_high]

NextBroadcast == BroadcastMatch

SpecBroadcast == InitBroadcast /\ [][NextBroadcast]_vars

BroadcastSent ==
    /\ op.name = "match_dest"
    /\ BroadcastDest = BroadcastIdOf(domain.source)

\* C40 as stated: the sender's broadcast ID matches a target in either
\* addressing mode
C40_Original_BroadcastMatchesAll == BroadcastSent => ret = TRUE

\* C40: a physical-mode command without shorthand whose destination is the
\* sender's broadcast ID matches exactly the controllers that are in the
\* sender's addressing mode
C40_BroadcastMatchesSameMode ==
    BroadcastSent =>
        (ret = TRUE <=> domain.target.apic_base_msr.extd
                           = domain.source.apic_base_msr.extd)

\* 0xffffffff from a sender in extended addressing reaches another
\* controller in extended addressing
C40_Witness ==
    /\ BroadcastSent
    /\ domain.source.apic_base_msr.extd
    /\ domain.target.apic_base_msr.extd
    /\ domain.target.vcpu_id # domain.source.vcpu_id
    /\ ret = TRUE

\* 0xff from a sender in standard addressing misses a controller in
\* extended addressing
C40_WitnessMixed ==
    /\ BroadcastSent
    /\ ~domain.source.apic_base_msr.extd
    /\ domain.target.apic_base_msr.extd
    /\ ret = FALSE

-----------------------------------------------------------------------------
(* SpecRearm: vcpu 1 of a newly created two-vcpu domain is restored from   *)
(* the two records saved of a controller whose timer was programmed, the   *)
(* 'hidden' record first or the 'regs' record first                        *)

\* LVTT of the saved controller: one-shot, periodic, deadline; vector 49
RearmLvttValues ==
    {49, APIC_TIMER_MODE_PERIODIC + 49, APIC_TIMER_MODE_TSC_DEADLINE + 49}

\* TDCR of the saved controller: divide by 2, by 16, by 1
RearmTdcrValues == {0, 3, 11}

RearmTmictValues == {0, 3}

\* the saved deadline: none, in the past, ahead
RearmDeadlineValues == {0, 500, (StartTime + 30) * TscPerNs}

\* the controller the records are saved of
RearmSaved(lvtt, tdcr, tmict, tdt) ==
    LET s0 == reg_write_spiv(vlapic_init_vcpu(1), APIC_SPIV_APIC_ENABLED + 255)
        s1 == vlapic_set_tdcr([s0 EXCEPT !.lvt[LVTT] = lvtt], tdcr)
    IN  [s1 EXCEPT !.tmict = tmict,
                   !.tdt_msr = IF vlapic_lvtt_tdt(s1) THEN tdt ELSE 0]

RearmLoadHidden ==
    /\ ~ModeSelf.loaded.hw
    /\ LET r == lapic_load_hidden(domain.d, domain.hidden)
       IN  /\ domain' = [domain EXCEPT !.d = r.d]
           /\ ret' = r.ret
    /\ op' = Op("load_hidden", 0, 0)
    /\ UNCHANGED <<vlapic, hvm, ctx>>

RearmLoadRegs ==
    /\ ~ModeSelf.loaded.regs
    /\ LET r == lapic_load_regs(domain.d, domain.regs, domain.now)
       IN  /\ domain' = [domain EXCEPT !.d = r.d]
           /\ ret' = r.ret
    /\ op' = Op("load_regs", 0, 0)
    /\ UNCHANGED <<vlapic, hvm, ctx>>

InitRearm ==
    /\ vlapic = vlapic_init
    /\ hvm = Platform(FALSE, FALSE, FALSE, FALSE, FALSE, 0)
    /\ ctx = [c \in Contexts |-> IdleCtx]
    /\ op = Op("init", 0, 0)
    /\ ret = 0
    /\ \E lvtt \in RearmLvttValues, tdcr \in RearmTdcrValues,
          tmict \in RearmTmictValues, tdt \in RearmDeadlineValues :
          LET saved == [vcpu |-> [i \in {1} |->
                                     RearmSaved(lvtt, tdcr, tmict, tdt)]]
          IN  domain = [d      |-> DomainOf([i \in 0..1 |->
                                                 vlapic_init_vcpu(i)]),
                        now    |-> StartTime,
                        hidden |-> lapic_save_hidden(saved, 1),
                        regs   |-> lapic_save_regs(saved, 1)]

NextRearm ==
    \/ RearmLoadHidden
    \/ RearmLoadRegs

SpecRearm == InitRearm /\ [][NextRearm]_vars

RearmBothLoaded == ModeSelf.loaded.hw /\ ModeSelf.loaded.regs

\* the registration the restored values call for
RearmExpected ==
    LET regs  == domain.regs.data
        hw    == domain.hidden.data
        delay == regs.tmict * APIC_BUS_CYCLE_NS * hw.timer_divisor
        tsc   == hvm_get_guest_tsc(domain.now)
    IN  IF lvtt_mode(regs.lvt[LVTT]) = APIC_TIMER_MODE_TSC_DEADLINE
        THEN IF hw.tdt_msr = 0 THEN ModeSelf.pt
             ELSE [active  |-> TRUE,
                   expires |-> IF hw.tdt_msr > tsc
                               THEN domain.now
                                        + gtsc_to_gtime(hw.tdt_msr - tsc)
                               ELSE domain.now,
                   period  |-> 0,
                   cb      |-> "tdt_pt_cb"]
        ELSE IF regs.tmict = 0 THEN ModeSelf.pt
        ELSE IF lvtt_mode(regs.lvt[LVTT]) = APIC_TIMER_MODE_PERIODIC
        THEN [active |-> TRUE, expires |-> domain.now + delay,
              period |-> delay, cb |-> "pt_cb"]
        ELSE [active |-> TRUE, expires |-> domain.now + delay,
              period |-> 0, cb |-> "none"]

\* C39: after both records of a virtual processor have been restored, in
\* either order, the timer is registered as the restored values call for:
\* after initial count x bus-cycle length x restored divisor (with that
\* period in periodic mode), or through the deadline path with the
\* restored deadline
C39_RearmedEitherOrder == RearmBothLoaded => ModeSelf.pt = RearmExpected

\* the same with the 'hidden' record restored first
C39_RearmedHiddenFirst ==
    (RearmBothLoaded /\ op.name = "load_regs") => ModeSelf.pt = RearmExpected

\* the 'regs' record was restored first, with a divisor of 16 saved: the
\* registration is that of the divisor the controller was created with
C39_Witness ==
    /\ RearmBothLoaded
    /\ op.name = "load_hidden"
    /\ domain.hidden.data.timer_divisor = 16
    /\ domain.regs.data.tmict = 3
    /\ ModeSelf.pt.active
    /\ ModeSelf.pt.expires = domain.now + 3 * APIC_BUS_CYCLE_NS * 2

====
